---- MODULE Spec2Model ----
(***************************************************************************)
(* A state-machine model of the Spectre simulator's micro-architecture     *)
(* core: instruction codec, cache, branch predictor, in-order pipeline and *)
(* the Tomasulo engine.  Every operator is translated from the C source;   *)
(* the C names are kept.  uint64_t is modelled WordBits wide (the low      *)
(* WordBits bits of every 64-bit value), uint8_t is 8 bits wide.           *)
(***************************************************************************)
EXTENDS Integers, Sequences, FiniteSets, TLC

VARIABLES
    cpu,      \* the CPU under test (struct CPU), with ghost fields
    cpuB,     \* a second CPU, used by the determinism specification
    ret,      \* the value returned by the last call of the harness
    hist,     \* ghost: what the harness has done so far
    cache,    \* a stand-alone Cache (struct Cache)
    bp,       \* a stand-alone BranchPredictor
    tom,      \* a TomasuloCPU
    codec,    \* the codec's last input and outputs
    kernel    \* the kernel-side object under test: scheduler, memory manager or file system

vars == <<cpu, cpuB, ret, hist, cache, bp, tom, codec, kernel>>

None == "none"

-----------------------------------------------------------------------------
(* Machine words                                                           *)

\* Width given to uint64_t in the model.
WordBits == 20
Word == 2^WordBits
UINT64_MAX == Word - 1
Byte == 256

W(x) == x % Word

Min(a, b) == IF a < b THEN a ELSE b

RECURSIVE BitOp(_, _, _, _)
\* Bitwise and/or/xor on the low n bits.
BitOp(op, a, b, n) ==
    IF n = 0 THEN 0
    ELSE LET x == a % 2
             y == b % 2
             z == CASE op = "and" -> IF x = 1 /\ y = 1 THEN 1 ELSE 0
                    [] op = "or"  -> IF x = 1 \/ y = 1 THEN 1 ELSE 0
                    [] op = "xor" -> IF x # y THEN 1 ELSE 0
         IN z + 2 * BitOp(op, a \div 2, b \div 2, n - 1)

RECURSIVE MulW(_, _)
\* a * b modulo Word, by shift and add (no intermediate exceeds 2 * Word).
MulW(a, b) ==
    IF b = 0 THEN 0
    ELSE W((IF b % 2 = 1 THEN a ELSE 0) + 2 * MulW(a, b \div 2))

RECURSIVE ShlW(_, _)
ShlW(a, k) == IF k = 0 THEN a ELSE ShlW(W(2 * a), k - 1)

RECURSIVE ShrW(_, _)
ShrW(a, k) == IF k = 0 THEN a ELSE ShrW(a \div 2, k - 1)

-----------------------------------------------------------------------------
(* include/cpu.h: enumerations                                             *)

INST_NOP == 0
INST_ADD == 1
INST_SUB == 2
INST_MUL == 3
INST_DIV == 4
INST_AND == 5
INST_OR == 6
INST_XOR == 7
INST_NOT == 8
INST_SHL == 9
INST_SHR == 10
INST_LD == 11
INST_ST == 12
INST_JMP == 13
INST_JZ == 14
INST_JNZ == 15
INST_CALL == 16
INST_RET == 17
INST_CMP == 18
INST_MOV == 19
INST_HLT == 20

STAGE_FETCH == 0
STAGE_DECODE == 1
STAGE_EXECUTE == 2
STAGE_MEMORY == 3
STAGE_WRITEBACK == 4
STAGE_COMMIT == 5

CACHE_DIRECT_MAPPED == 0
CACHE_SET_ASSOC == 1
CACHE_FULL_ASSOC == 2

PREDICTOR_ALWAYS_TAKEN == 0
PREDICTOR_ALWAYS_NOT_TAKEN == 1
PREDICTOR_BIMODAL == 2
PREDICTOR_GSHARE == 3

KiB == 1024

-----------------------------------------------------------------------------------------------------------------------------------------------------
(* src/cpu/cache.c                                                         *)
(* The arrays tags, valid, lru_counters and (below) pht are kept as the    *)
(* entries written since creation over the value creation gave them all,   *)
(* which keeps a 32 KiB cache or a 4096-entry table small in a state.      *)

\* f with f[k] = v.
Put(f, k, v) == [x \in DOMAIN f \cup {k} |-> IF x = k THEN v ELSE f[x]]

\* cache_create: the geometry, and arrays whose every entry is 0 / false
\* (cache.c:30-33, 39).  lru_counters exists only for CACHE_SET_ASSOC.
cache_create(type, size, line_size, associativity) ==
    LET lines == size \div line_size
    IN [ type |-> type, size |-> size, line_size |-> line_size,
         associativity |-> associativity,
         num_sets |-> lines \div associativity,
         hit_time |-> 1, miss_penalty |-> 10,
         tags |-> << >>, valid |-> << >>, lru_counters |-> << >>,
         hits |-> 0, misses |-> 0, accesses |-> 0 ]

\* cache->valid[s][w], cache->tags[s][w], cache->lru_counters[k]
ValidAt(c, s, w) == IF <<s, w>> \in DOMAIN c.valid THEN c.valid[<<s, w>>] ELSE FALSE
TagAt(c, s, w) == IF <<s, w>> \in DOMAIN c.tags THEN c.tags[<<s, w>>] ELSE 0
LruAt(c, k) == IF k \in DOMAIN c.lru_counters THEN c.lru_counters[k] ELSE 0

\* A set index taken from the byte address instead of the line address.
set_index_of_ByteAddr(c, addr) == addr % c.num_sets

line_addr_of(c, addr) == addr \div c.line_size
set_index_of(c, addr) == line_addr_of(c, addr) % c.num_sets
tag_of(c, addr) == line_addr_of(c, addr) \div c.num_sets

\* Mutants of the search loop: the scan starts at way 1; the tag is not
\* compared.
HitWays_SkipWay0(c, set_index, tag) ==
    { i \in 1 .. c.associativity - 1 :
        ValidAt(c, set_index, i) /\ TagAt(c, set_index, i) = tag }

HitWays_IgnoreTag(c, set_index, tag) ==
    { i \in 0 .. c.associativity - 1 : ValidAt(c, set_index, i) }

\* The search loop of cache_access (cache.c:69-81): the ways of the set
\* that are valid and hold the tag; the loop returns at the first.
HitWays(c, set_index, tag) ==
    { i \in 0 .. c.associativity - 1 :
        ValidAt(c, set_index, i) /\ TagAt(c, set_index, i) = tag }

RECURSIVE LruScan(_, _, _, _, _)
\* The victim loop of cache_access (cache.c:91-101), from way i on.
LruScan(c, set_index, i, min_lru, victim) ==
    IF i >= c.associativity THEN victim
    ELSE IF ~ValidAt(c, set_index, i) THEN i
    ELSE LET lru == LruAt(c, set_index * c.associativity + i)
         IN IF lru < min_lru
            THEN LruScan(c, set_index, i + 1, lru, i)
            ELSE LruScan(c, set_index, i + 1, min_lru, victim)

\* A victim choice that always takes the last way of the set.
FindVictim_LastWay(c, set_index) == c.associativity - 1

\* A victim choice that never looks at the valid bits or the timestamps.
FindVictim_Way0(c, set_index) == 0

\* Victim selection (cache.c:87-102): way 0 unless the cache is
\* set-associative.
FindVictim(c, set_index) ==
    IF c.type = CACHE_SET_ASSOC
    THEN LruScan(c, set_index, 0, UINT64_MAX, 0)
    ELSE 0

\* A cache_access that counts the access only once the search has missed.
cache_access_CountAfterSearch(c, addr, is_write) ==
    LET set_index == set_index_of(c, addr)
        tag == tag_of(c, addr)
        victim == FindVictim(c, set_index)
    IN IF HitWays(c, set_index, tag) # {}
       THEN [ cache |-> [c EXCEPT !.hits = W(@ + 1)], ret |-> c.hit_time ]
       ELSE [ cache |-> [c EXCEPT
                  !.accesses = W(@ + 1),
                  !.misses = W(@ + 1),
                  !.valid = Put(@, <<set_index, victim>>, TRUE),
                  !.tags = Put(@, <<set_index, victim>>, tag)],
              ret |-> c.miss_penalty ]

\* cache_access: the cache after the call and the latency returned.
cache_access(c, addr, is_write) ==
    LET acc == W(c.accesses + 1)
        set_index == set_index_of(c, addr)
        tag == tag_of(c, addr)
        hw == HitWays(c, set_index, tag)
    IN IF hw # {}
       THEN LET i == CHOOSE x \in hw : \A y \in hw : x <= y
            IN [ cache |-> [c EXCEPT
                     !.accesses = acc,
                     !.hits = W(@ + 1),
                     !.lru_counters =
                         IF c.type = CACHE_SET_ASSOC
                         THEN Put(@, set_index * c.associativity + i, acc)
                         ELSE @],
                 ret |-> c.hit_time ]
       ELSE LET victim == FindVictim(c, set_index)
            IN [ cache |-> [c EXCEPT
                     !.accesses = acc,
                     !.misses = W(@ + 1),
                     !.valid = Put(@, <<set_index, victim>>, TRUE),
                     !.tags = Put(@, <<set_index, victim>>, tag),
                     !.lru_counters =
                         IF c.type = CACHE_SET_ASSOC
                         THEN Put(@, set_index * c.associativity + victim, acc)
                         ELSE @],
                 ret |-> c.miss_penalty ]

-----------------------------------------------------------------------------
(* src/cpu/branch_predictor.c                                              *)

\* bp_create: every table entry starts weakly taken (2).
bp_create(type, bhr_size, pht_size) ==
    [ type |-> type, bhr_size |-> bhr_size, pht_size |-> pht_size,
      bhr |-> 0, correct |-> 0, total |-> 0,
      pht_initial |-> 2, pht |-> << >> ]

\* bp->pht[i]
PhtAt(b, i) == IF i \in DOMAIN b.pht THEN b.pht[i] ELSE b.pht_initial

\* A slot selected by the pc alone, whatever the predictor.
bp_index_NoHistory(b, pc) == pc % b.pht_size

\* The table slot a pc selects (branch_predictor.c:46, 51, 67, 77).
bp_index(b, pc) ==
    IF b.type = PREDICTOR_GSHARE
    THEN BitOp("xor", pc, b.bhr, WordBits) % b.pht_size
    ELSE pc % b.pht_size

\* bp_predict: the predictor after the call (total incremented) and the
\* direction returned.
bp_predict(b, pc) ==
    [ bp |-> [b EXCEPT !.total = W(@ + 1)],
      ret |-> CASE b.type = PREDICTOR_ALWAYS_TAKEN -> TRUE
                [] b.type = PREDICTOR_ALWAYS_NOT_TAKEN -> FALSE
                [] b.type = PREDICTOR_BIMODAL -> PhtAt(b, bp_index(b, pc)) >= 2
                [] b.type = PREDICTOR_GSHARE -> PhtAt(b, bp_index(b, pc)) >= 2
                [] OTHER -> FALSE ]

\* Mutant of the counter step: the counter moves away from the outcome.
counter_step_Inverted(v, taken) ==
    IF taken THEN (IF v > 0 THEN v - 1 ELSE v)
    ELSE (IF v < 3 THEN v + 1 ELSE v)

\* A counter step without the bounds checks, on the uint8_t slot.
counter_step_Unsaturated(v, taken) ==
    IF taken THEN (v + 1) % Byte ELSE (v + Byte - 1) % Byte

\* The saturating counter step of bp_update (branch_predictor.c:68-72).
counter_step(v, taken) ==
    IF taken THEN (IF v < 3 THEN v + 1 ELSE v)
    ELSE (IF v > 0 THEN v - 1 ELSE v)

bp_update(b, pc, taken, predicted) ==
    LET b1 == IF taken = predicted THEN [b EXCEPT !.correct = W(@ + 1)] ELSE b
        index == bp_index(b1, pc)
        stepped == Put(b1.pht, index, counter_step(PhtAt(b1, index), taken))
    IN CASE b.type = PREDICTOR_BIMODAL -> [b1 EXCEPT !.pht = stepped]
         [] b.type = PREDICTOR_GSHARE ->
              [b1 EXCEPT
                 !.pht = stepped,
                 \* bhr is a uint32_t kept below 2^bhr_size, so the shift
                 \* never reaches bit 32 for bhr_size < 32.
                 !.bhr = (2 * b1.bhr + (IF taken THEN 1 ELSE 0)) % (2^b1.bhr_size)]
         [] OTHER -> b1

-----
(* src/cpu/pipeline.c                                                      *)

\* Bytes the model lets malloc'ed, never written memory hold, and the
\* values get_time_ms() may return.
UninitBytes == {0, INST_LD, INST_JNZ}
UninitPeriod == 1
UninitPatterns == [1 .. UninitPeriod -> UninitBytes]
MaxTime == 1
Times == 0 .. MaxTime

\* memset(cpu->pipeline, 0, ...) followed by type = INST_NOP.
ZeroPipelineRegister ==
    [ pc |-> 0, type |-> INST_NOP, opcode |-> 0, src1 |-> 0, src2 |-> 0,
      dest |-> 0, immediate |-> 0, result |-> 0, mem_addr |-> 0,
      mem_data |-> 0, stall |-> FALSE, bubble |-> FALSE, cycle_entered |-> 0 ]

\* cpu->memory[a]: a byte written since malloc, or whatever malloc left.
\* The memory is kept as the bytes written (a function on the addresses
\* written) over the unknown content `uninit`.
MemByte(c, a) ==
    IF a \in DOMAIN c.memory THEN c.memory[a]
    ELSE c.uninit[(a % Len(c.uninit)) + 1]

InRange(c, a, n) == a + n <= c.mem_size

\* *(uint64_t*)(cpu->memory + a): eight bytes, little-endian, as a word.
Load64(c, a) ==
    W(MemByte(c, a) + Byte * MemByte(c, a + 1)
        + Byte * Byte * (MemByte(c, a + 2) % (Word \div (Byte * Byte))))

RECURSIVE ByteOf(_, _)
\* Byte k of the little-endian image of v.
ByteOf(v, k) == IF k = 0 THEN v % Byte ELSE ByteOf(v \div Byte, k - 1)

\* *(uint64_t*)(cpu->memory + a) = v.
Store64(c, a, v) ==
    [x \in DOMAIN c.memory \cup (a .. a + 7) |->
        IF x \in a .. a + 7 THEN ByteOf(v, x - a) ELSE c.memory[x]]

\* cpu_reset: registers, pc, sp, flags, the pipeline and the four CPU
\* counters; memory, the caches and the predictor are not touched.
cpu_reset(c, now) ==
    [c EXCEPT
        !.registers = [r \in 0 .. 15 |-> 0],
        !.pc = 4096,
        !.sp = 32768,
        !.flags = 0,
        !.pipeline = [s \in STAGE_FETCH .. STAGE_COMMIT |-> ZeroPipelineRegister],
        !.current_stage = STAGE_FETCH,
        !.cycles = 0,
        !.instructions = 0,
        !.stalls = 0,
        !.bubbles = 0,
        !.start_time = now,
        !.written = {}]

\* cpu_create: malloc'ed memory (content unknown), the two caches, the
\* bimodal predictor, then cpu_reset.  oob is a ghost: TRUE once an access
\* outside [0, mem_size) has been made.  written is a ghost: the pairs
\* <<field, stage>> such that the stage has stored to cpu->registers or
\* cpu->flags since the last reset.
cpu_create(mem_size, uninit, now) ==
    cpu_reset(
        [ mem_size |-> mem_size,
          memory |-> << >>,
          uninit |-> uninit,
          l1_cache |-> cache_create(CACHE_SET_ASSOC, 32 * KiB, 64, 8),
          l2_cache |-> cache_create(CACHE_SET_ASSOC, 256 * KiB, 64, 16),
          bp |-> bp_create(PREDICTOR_BIMODAL, 12, 4096),
          registers |-> << >>, pc |-> 0, sp |-> 0, flags |-> 0,
          pipeline |-> << >>, current_stage |-> 0,
          cycles |-> 0, instructions |-> 0, stalls |-> 0, bubbles |-> 0,
          start_time |-> 0, oob |-> FALSE, written |-> {} ],
        now)

\* A hazard scan that looks at the next stage only.
check_hazard_NextStageOnly(c, stage, reg) ==
    c.pipeline[stage + 1].dest = reg /\ c.pipeline[stage + 1].type # INST_NOP

\* check_hazard: a non-no-op with destination reg in a stage after `stage`.
check_hazard(c, stage, reg) ==
    \E i \in stage + 1 .. STAGE_COMMIT :
        c.pipeline[i].dest = reg /\ c.pipeline[i].type # INST_NOP

IsJump(type) == type = INST_JMP \/ type = INST_JZ \/ type = INST_JNZ

\* The misprediction test of stage_fetch (pipeline.c:91-108).
fetch_flush(c) ==
    LET ex == c.pipeline[STAGE_EXECUTE]
    IN IF IsJump(ex.type)
       THEN LET taken == ex.result # 0
                p == bp_predict(c.bp, ex.pc)
                c1 == [c EXCEPT !.bp = p.bp]
            IN IF taken # p.ret
               THEN [c1 EXCEPT
                       !.pipeline = [i \in STAGE_FETCH .. STAGE_COMMIT |->
                           IF i >= STAGE_DECODE
                           THEN [c1.pipeline[i] EXCEPT !.type = INST_NOP,
                                                       !.bubble = TRUE]
                           ELSE c1.pipeline[i]],
                       !.pc = ex.result,
                       !.bubbles = W(@ + 3)]
               ELSE c1
       ELSE c

\* The opcode-to-kind map of stage_fetch (pipeline.c:119-124).
fetch_type(opcode) == IF opcode < 20 THEN opcode ELSE INST_NOP

\* Mutant of stage_fetch: the stall flag is not tested, so a stalled Fetch
\* overwrites the instruction it holds.
stage_fetch_IgnoreStall(c) ==
    LET c1 == fetch_flush(c)
        opcode == MemByte(c1, c1.pc)
    IN [c1 EXCEPT
          !.l1_cache = cache_access(c1.l1_cache, c1.pc, FALSE).cache,
          !.oob = @ \/ ~InRange(c1, c1.pc, 1),
          !.pipeline = [@ EXCEPT ![STAGE_FETCH] =
              [@ EXCEPT !.pc = c1.pc,
                        !.opcode = opcode,
                        !.cycle_entered = c1.cycles,
                        !.type = fetch_type(opcode)]],
          !.pc = W(c1.pc + 1)]

stage_fetch(c) ==
    IF c.pipeline[STAGE_FETCH].stall
    THEN [c EXCEPT !.stalls = W(@ + 1)]
    ELSE LET c1 == fetch_flush(c)
             opcode == MemByte(c1, c1.pc)
         IN [c1 EXCEPT
               !.l1_cache = cache_access(c1.l1_cache, c1.pc, FALSE).cache,
               !.oob = @ \/ ~InRange(c1, c1.pc, 1),
               !.pipeline = [@ EXCEPT ![STAGE_FETCH] =
                   [@ EXCEPT !.pc = c1.pc,
                             !.opcode = opcode,
                             !.cycle_entered = c1.cycles,
                             !.type = fetch_type(opcode)]],
               !.pc = W(c1.pc + 1)]

\* The hazard scan of stage_decode (pipeline.c:141-142), on the state the
\* stage sees.
decode_hazard(c) ==
    \/ check_hazard(c, STAGE_DECODE, c.pipeline[STAGE_FETCH].src1)
    \/ check_hazard(c, STAGE_DECODE, c.pipeline[STAGE_FETCH].src2)

\* The register read of stage_decode (pipeline.c:154-155).
decode_read(c) ==
    << c.registers[c.pipeline[STAGE_FETCH].opcode % 16],
       c.registers[(c.pipeline[STAGE_FETCH].opcode \div 16) % 16] >>

stage_decode(c) ==
    LET prev == c.pipeline[STAGE_FETCH]
    IN IF prev.bubble
       THEN [c EXCEPT !.pipeline = [@ EXCEPT ![STAGE_DECODE] =
                [@ EXCEPT !.type = INST_NOP, !.bubble = TRUE]]]
       ELSE IF decode_hazard(c)
       THEN [c EXCEPT
               !.pipeline = [@ EXCEPT
                   ![STAGE_FETCH] = [@ EXCEPT !.stall = TRUE],
                   ![STAGE_DECODE] = [@ EXCEPT !.type = INST_NOP]],
               !.stalls = W(@ + 1)]
       ELSE [c EXCEPT !.pipeline = [@ EXCEPT ![STAGE_DECODE] =
                [prev EXCEPT
                    !.cycle_entered = c.cycles,
                    !.src1 = decode_read(c)[1],
                    !.src2 = decode_read(c)[2]]]]

\* The switch of stage_execute (pipeline.c:173-216): the result, and the
\* flags word, which INST_CMP writes.
execute_result(pr) ==
    CASE pr.type = INST_ADD -> W(pr.src1 + pr.src2)
      [] pr.type = INST_SUB -> W(pr.src1 - pr.src2 + Word)
      [] pr.type = INST_MUL -> MulW(pr.src1, pr.src2)
      [] pr.type = INST_AND -> BitOp("and", pr.src1, pr.src2, WordBits)
      [] pr.type = INST_OR  -> BitOp("or", pr.src1, pr.src2, WordBits)
      [] pr.type = INST_XOR -> BitOp("xor", pr.src1, pr.src2, WordBits)
      [] pr.type = INST_SHL -> ShlW(pr.src1, pr.src2 % 64)
      [] pr.type = INST_SHR -> ShrW(pr.src1, pr.src2 % 64)
      [] pr.type = INST_JMP -> pr.immediate
      [] pr.type = INST_JZ  -> IF pr.src1 = 0 THEN pr.immediate ELSE W(pr.pc + 1)
      [] pr.type = INST_JNZ -> IF pr.src1 # 0 THEN pr.immediate ELSE W(pr.pc + 1)
      [] pr.type = INST_CMP -> W(pr.src1 - pr.src2 + Word)
      [] pr.type = INST_MOV -> pr.src1
      [] OTHER -> 0

\* A predictor update that takes a jump as taken when its result is not 0.
execute_predict_TakenNonZero(b, pr) ==
    IF IsJump(pr.type)
    THEN LET p == bp_predict(b, pr.pc)
         IN bp_update(p.bp, pr.pc, pr.result # 0, p.ret)
    ELSE b

\* The predictor update of stage_execute (pipeline.c:218-223).
execute_predict(b, pr) ==
    IF IsJump(pr.type)
    THEN LET taken == pr.result # W(pr.pc + 1)
             p == bp_predict(b, pr.pc)
         IN bp_update(p.bp, pr.pc, taken, p.ret)
    ELSE b

stage_execute(c) ==
    LET prev == c.pipeline[STAGE_DECODE]
    IN IF prev.bubble
       THEN [c EXCEPT !.pipeline = [@ EXCEPT ![STAGE_EXECUTE] =
                [@ EXCEPT !.type = INST_NOP, !.bubble = TRUE]]]
       ELSE LET pr0 == [prev EXCEPT !.cycle_entered = c.cycles]
                pr == [pr0 EXCEPT !.result = execute_result(pr0)]
            IN [c EXCEPT
                  !.pipeline = [@ EXCEPT ![STAGE_EXECUTE] = pr],
                  !.flags = IF pr.type = INST_CMP THEN pr.result ELSE @,
                  !.written = IF pr.type = INST_CMP
                              THEN @ \cup {<<"flags", STAGE_EXECUTE>>}
                              ELSE @,
                  !.bp = execute_predict(@, pr)]

\* Mutant of stage_memory: the stage takes its instruction from Decode,
\* so an instruction skips Execute.
stage_memory_FromDecode(c) ==
    LET prev == c.pipeline[STAGE_DECODE]
    IN IF prev.bubble
       THEN [c EXCEPT !.pipeline = [@ EXCEPT ![STAGE_MEMORY] =
                [@ EXCEPT !.type = INST_NOP, !.bubble = TRUE]]]
       ELSE [c EXCEPT !.pipeline = [@ EXCEPT ![STAGE_MEMORY] =
                [prev EXCEPT !.cycle_entered = c.cycles]]]

stage_memory(c) ==
    LET prev == c.pipeline[STAGE_EXECUTE]
    IN IF prev.bubble
       THEN [c EXCEPT !.pipeline = [@ EXCEPT ![STAGE_MEMORY] =
                [@ EXCEPT !.type = INST_NOP, !.bubble = TRUE]]]
       ELSE LET pr == [prev EXCEPT !.cycle_entered = c.cycles]
            IN CASE pr.type = INST_LD ->
                    [c EXCEPT
                       !.l1_cache = cache_access(@, pr.mem_addr, FALSE).cache,
                       !.oob = @ \/ ~InRange(c, pr.mem_addr, 8),
                       !.pipeline = [@ EXCEPT ![STAGE_MEMORY] =
                           [pr EXCEPT !.result = Load64(c, pr.mem_addr)]]]
                 [] pr.type = INST_ST ->
                    [c EXCEPT
                       !.l1_cache = cache_access(@, pr.mem_addr, TRUE).cache,
                       !.oob = @ \/ ~InRange(c, pr.mem_addr, 8),
                       !.memory = Store64(c, pr.mem_addr, pr.mem_data),
                       !.pipeline = [@ EXCEPT ![STAGE_MEMORY] = pr]]
                 [] OTHER ->
                    [c EXCEPT !.pipeline = [@ EXCEPT ![STAGE_MEMORY] = pr]]

stage_writeback(c) ==
    LET prev == c.pipeline[STAGE_MEMORY]
    IN IF prev.bubble
       THEN [c EXCEPT !.pipeline = [@ EXCEPT ![STAGE_WRITEBACK] =
                [@ EXCEPT !.type = INST_NOP, !.bubble = TRUE]]]
       ELSE LET pr == [prev EXCEPT !.cycle_entered = c.cycles]
            IN [c EXCEPT
                  !.pipeline = [@ EXCEPT ![STAGE_WRITEBACK] = pr],
                  !.registers = IF pr.dest < 16
                                THEN [@ EXCEPT ![pr.dest] = pr.result]
                                ELSE @,
                  !.written = IF pr.dest < 16
                              THEN @ \cup {<<"registers", STAGE_WRITEBACK>>}
                              ELSE @,
                  !.instructions = W(@ + 1)]

stage_commit(c) ==
    LET prev == c.pipeline[STAGE_WRITEBACK]
        c1 == IF prev.bubble
              THEN [c EXCEPT !.pipeline = [@ EXCEPT ![STAGE_COMMIT] =
                       [@ EXCEPT !.type = INST_NOP, !.bubble = FALSE]]]
              ELSE [c EXCEPT !.pipeline = [@ EXCEPT ![STAGE_COMMIT] = prev]]
    IN [c1 EXCEPT !.pipeline = [@ EXCEPT ![STAGE_FETCH] =
           [@ EXCEPT !.stall = FALSE]]]

\* Mutant of cpu_step: a cycle in which Fetch is stalled is not counted.
cpu_step_NoCountOnStall(c) ==
    LET c5 == stage_decode(stage_execute(stage_memory(
                  stage_writeback(stage_commit(c)))))
        c6 == stage_fetch(c5)
    IN IF c5.pipeline[STAGE_FETCH].stall THEN c6
       ELSE [c6 EXCEPT !.cycles = W(@ + 1)]

\* cpu_step: the six stages in reverse order, then cycles++.
cpu_step(c) ==
    LET c1 == stage_commit(c)
        c2 == stage_writeback(c1)
        c3 == stage_memory(c2)
        c4 == stage_execute(c3)
        c5 == stage_decode(c4)
        c6 == stage_fetch(c5)
    IN [c6 EXCEPT !.cycles = W(@ + 1)]

RECURSIVE cpu_run(_, _)
\* cpu_run: `cycles` calls of cpu_step, one after the other (the loop is
\* split in halves to keep the evaluation shallow).
cpu_run(c, cycles) ==
    IF cycles = 0 THEN c
    ELSE IF cycles = 1 THEN cpu_step(c)
    ELSE LET half == cpu_run(c, cycles \div 2)
         IN IF half.cycles = W(c.cycles + cycles \div 2)
            THEN cpu_run(half, cycles - cycles \div 2)
            ELSE half

\* The test of cpu_load_program (pipeline.c:73), in uint64_t arithmetic.
load_rejects(c, size, address) == W(address + size) > c.mem_size

\* memcpy(cpu->memory + address, program, size): the bytes that land
\* inside the allocation.
load_copy(c, program, size, address) ==
    [x \in DOMAIN c.memory \cup { a \in address .. address + size - 1 : a < c.mem_size } |->
        IF x \in address .. address + size - 1
        THEN program[x - address + 1]
        ELSE c.memory[x]]

\* cpu_load_program: the CPU after the call and the value returned.  A copy
\* that leaves the allocation sets the ghost oob.
cpu_load_program(c, program, size, address) ==
    IF load_rejects(c, size, address)
    THEN [ cpu |-> c, ret |-> -1 ]
    ELSE [ cpu |-> [c EXCEPT
                      !.memory = load_copy(c, program, size, address),
                      !.oob = @ \/ (size > 0 /\ address + size > c.mem_size),
                      !.pc = address],
           ret |-> 0 ]

-----------------------------------------------------------------------------
(* The in-order pipeline driven as tests/integration_tests.c drives it:    *)
(* cpu_create, optionally a replaced predictor, cpu_load_program, then     *)
(* cpu_step / cpu_run.                                                      *)

MaxCycles == 100
\* tests/integration_tests.c: cpu_create(64 * KiB), load at 0x1000, run 100.
MemSize == 64 * KiB
LoadAddress == 4096
TestCycles == 100

\* tests/integration_tests.c:21-26: MOV R0,10; MOV R1,20; ADD R2,R0,R1; HLT
ProgIntegration ==
    << INST_MOV, 0, 10, INST_MOV, 1, 20, INST_ADD, 2, 0, 1, INST_HLT >>
\* MOV R0,10; ADD R1,R0,R0 in the same byte convention
ProgHazard == << INST_MOV, 0, 10, INST_ADD, 1, 0, 0 >>
\* a conditional jump on a zero register (taken), then no-ops
ProgBranchTaken == << INST_JZ, INST_NOP, INST_NOP >>
\* a conditional jump on a zero register (not taken), then no-ops
ProgBranchNotTaken == << INST_JNZ, INST_NOP, INST_NOP >>
ProgLoadStore == << INST_ST, INST_LD, INST_CMP >>

Programs ==
    { ProgIntegration, ProgHazard, ProgBranchTaken, ProgBranchNotTaken,
      ProgLoadStore }

ForcedPredictors == { PREDICTOR_ALWAYS_NOT_TAKEN }

OtherIdle ==
    /\ cpuB = None /\ cache = None /\ bp = None /\ tom = None /\ codec = None
    /\ kernel = None

InitPipeline ==
    /\ \E u \in UninitPatterns, t \in Times : cpu = cpu_create(MemSize, u, t)
    /\ ret = None
    /\ hist = [ loaded |-> FALSE, program |-> << >>, forced |-> FALSE ]
    /\ OtherIdle

\* The harness replaces cpu->bp (a public field) before it runs anything.
ForcePredictor(type) ==
    /\ ~hist.forced /\ cpu.cycles = 0
    /\ cpu' = [cpu EXCEPT !.bp = bp_create(type, 12, 4096)]
    /\ hist' = [hist EXCEPT !.forced = TRUE]
    /\ UNCHANGED <<cpuB, ret, cache, bp, tom, codec, kernel>>

LoadProgram(program) ==
    /\ ~hist.loaded /\ cpu.cycles = 0
    /\ LET r == cpu_load_program(cpu, program, Len(program), LoadAddress)
       IN /\ cpu' = r.cpu
          /\ ret' = r.ret
    /\ hist' = [hist EXCEPT !.loaded = TRUE, !.program = program]
    /\ UNCHANGED <<cpuB, cache, bp, tom, codec, kernel>>

CpuStep ==
    /\ cpu.cycles < MaxCycles
    /\ cpu' = cpu_step(cpu)
    /\ UNCHANGED <<cpuB, ret, hist, cache, bp, tom, codec, kernel>>

CpuRun(cycles) ==
    /\ cpu.cycles = 0 /\ cycles <= MaxCycles
    /\ cpu' = cpu_run(cpu, cycles)
    /\ UNCHANGED <<cpuB, ret, hist, cache, bp, tom, codec, kernel>>

NextPipeline ==
    \/ \E type \in ForcedPredictors : ForcePredictor(type)
    \/ \E program \in Programs : LoadProgram(program)
    \/ CpuStep
    \/ CpuRun(TestCycles)

SpecPipeline == InitPipeline /\ [][NextPipeline]_vars

\* Something fetched after the loaded program has reached Commit: every
\* byte of the program has left the pipeline.
Drained ==
    /\ hist.loaded
    /\ cpu.pipeline[STAGE_COMMIT].pc >= LoadAddress + Len(hist.program)

\* C1: after the integration program has been loaded at 0x1000 into a
\* freshly created CPU and 100 cycles have run, R2 = 30.
C1_IntegrationR2 ==
    (hist.loaded /\ ~hist.forced /\ hist.program = ProgIntegration
        /\ cpu.cycles = TestCycles)
    => cpu.registers[2] = 30

\* C2: once MOV R0,10; ADD R1,R0,R0 has drained, R1 = 20 (the ADD read the
\* written R0, not a stale zero).
C2_HazardR1 ==
    (Drained /\ hist.program = ProgHazard) => cpu.registers[1] = 20

\* A cpu_step moves a conditional jump from Decode into Execute, the jump
\* is taken and the predictor is fixed to not-taken.
MispredictedTakenBranch ==
    LET pr == cpu.pipeline[STAGE_DECODE]
    IN /\ cpu'.cycles = cpu.cycles + 1
       /\ cpu.bp.type = PREDICTOR_ALWAYS_NOT_TAKEN
       /\ ~pr.bubble
       /\ pr.type \in {INST_JZ, INST_JNZ}
       /\ execute_result(pr) # W(pr.pc + 1)

\* C3: a taken conditional jump that the always-not-taken predictor
\* mispredicts flushes the pipeline in the cycle it executes: bubbles grows
\* by exactly 3, Decode to Commit are bubbles and fetching resumes at the
\* jump's target.
C3_MispredictFlush ==
    [][ MispredictedTakenBranch =>
          /\ cpu'.bubbles = cpu.bubbles + 3
          /\ \A i \in STAGE_DECODE .. STAGE_COMMIT : cpu'.pipeline[i].bubble
          /\ cpu'.pipeline[STAGE_FETCH].pc = execute_result(cpu.pipeline[STAGE_DECODE])
      ]_vars

-----------------------------------------------------------------------------
(* Two CPUs side by side: cpu comes straight from cpu_create, cpuB may     *)
(* have been used before and brought back with cpu_reset.  Both then load  *)
(* the same program at the same address and step in lockstep.              *)

MaxEarlierCycles == 2
MaxLockstep == 12

InitDeterminism ==
    /\ \E u \in UninitPatterns, t \in Times : cpu = cpu_create(MemSize, u, t)
    /\ \E u \in UninitPatterns, t \in Times : cpuB = cpu_create(MemSize, u, t)
    /\ ret = None
    /\ hist = [ phase |-> "fresh", program |-> << >>, resets |-> 0 ]
    /\ cache = None /\ bp = None /\ tom = None /\ codec = None
    /\ kernel = None

\* cpuB is stepped before the experiment starts.
DetEarlierUse ==
    /\ hist.phase \in {"fresh", "used"} /\ hist.resets = 0
    /\ cpuB.cycles < MaxEarlierCycles
    /\ cpuB' = cpu_step(cpuB)
    /\ hist' = [hist EXCEPT !.phase = "used"]
    /\ UNCHANGED <<cpu, ret, cache, bp, tom, codec, kernel>>

DetReset(now) ==
    /\ hist.phase = "used"
    /\ cpuB' = cpu_reset(cpuB, now)
    /\ hist' = [hist EXCEPT !.phase = "fresh", !.resets = 1]
    /\ UNCHANGED <<cpu, ret, cache, bp, tom, codec, kernel>>

DetLoad(program) ==
    /\ hist.phase = "fresh"
    /\ cpu' = cpu_load_program(cpu, program, Len(program), LoadAddress).cpu
    /\ cpuB' = cpu_load_program(cpuB, program, Len(program), LoadAddress).cpu
    /\ hist' = [hist EXCEPT !.phase = "run", !.program = program]
    /\ UNCHANGED <<ret, cache, bp, tom, codec, kernel>>

DetStep ==
    /\ hist.phase = "run"
    /\ cpu.cycles < MaxLockstep
    /\ cpu' = cpu_step(cpu)
    /\ cpuB' = cpu_step(cpuB)
    /\ UNCHANGED <<ret, hist, cache, bp, tom, codec, kernel>>

NextDeterminism ==
    \/ DetEarlierUse
    \/ \E now \in Times : DetReset(now)
    \/ \E program \in Programs : DetLoad(program)
    \/ DetStep

SpecDeterminism == InitDeterminism /\ [][NextDeterminism]_vars

\* The observable result of a run: registers, pc, flags and the counters.
Observed(c) ==
    [ registers |-> c.registers, pc |-> c.pc, flags |-> c.flags,
      cycles |-> c.cycles, instructions |-> c.instructions,
      stalls |-> c.stalls, bubbles |-> c.bubbles,
      l1 |-> <<c.l1_cache.accesses, c.l1_cache.hits, c.l1_cache.misses>>,
      l2 |-> <<c.l2_cache.accesses, c.l2_cache.hits, c.l2_cache.misses>>,
      bp |-> <<c.bp.total, c.bp.correct>> ]

\* C5: two freshly reset CPUs that load the same program at the same
\* address and step the same number of cycles agree on registers, pc, flags
\* and every performance counter.
C5_Determinism ==
    hist.phase = "run" => Observed(cpu) = Observed(cpuB)

\* The same, with both CPUs straight from cpu_create (no cpu_reset).
C5_DeterminismCreateOnly ==
    (hist.phase = "run" /\ hist.resets = 0) => Observed(cpu) = Observed(cpuB)

-----------------------------------------------------------------------------
(* A stand-alone cache driven by arbitrary cache_access calls.             *)

MaxAccesses == 4
MaxAddr == 9
\* <<type, line_size, associativity, num_sets>>; size is their product.
CacheGeometries ==
    { <<CACHE_SET_ASSOC, 2, 2, 2>>, <<CACHE_SET_ASSOC, 1, 2, 1>>,
      <<CACHE_DIRECT_MAPPED, 2, 1, 2>>, <<CACHE_DIRECT_MAPPED, 2, 2, 1>>,
      <<CACHE_FULL_ASSOC, 2, 2, 1>> }

InitCache ==
    /\ \E g \in CacheGeometries :
          cache = cache_create(g[1], g[2] * g[3] * g[4], g[2], g[3])
    /\ ret = None
    \* ghost: the lines accessed so far, the address of the last call, how
    \* many calls in a row used it, the miss counter after the first
    \* call of that run, and the number of calls made
    /\ hist = [ touched |-> {}, last |-> -1, run |-> 0, run_misses |-> 0,
                calls |-> 0 ]
    /\ cpu = None /\ cpuB = None /\ bp = None /\ tom = None /\ codec = None
    /\ kernel = None

CacheAccess(addr, is_write) ==
    /\ cache.accesses < MaxAccesses
    /\ LET r == cache_access(cache, addr, is_write)
       IN /\ cache' = r.cache
          /\ ret' = r.ret
          /\ hist' = [ touched |-> hist.touched \cup {line_addr_of(cache, addr)},
                       last |-> addr,
                       run |-> IF hist.last = addr THEN hist.run + 1 ELSE 1,
                       run_misses |-> IF hist.last = addr THEN hist.run_misses
                                      ELSE r.cache.misses,
                       calls |-> hist.calls + 1 ]
    /\ UNCHANGED <<cpu, cpuB, bp, tom, codec, kernel>>

NextCache == \E addr \in 0 .. MaxAddr, is_write \in BOOLEAN : CacheAccess(addr, is_write)

SpecCache == InitCache /\ [][NextCache]_vars

\* The line is resident: some valid way of its set holds its tag.
Resident(c, line) ==
    HitWays(c, line % c.num_sets, line \div c.num_sets) # {}

\* C6: in a run of cache_access calls on one address only the first call
\* can raise the miss counter; every later call returns the hit latency.
C6_RepeatedAccessHits ==
    hist.run >= 1 =>
        /\ cache.misses = hist.run_misses
        /\ hist.run >= 2 => ret = cache.hit_time

C6_Witness == hist.run >= 3 /\ cache.misses >= 2 /\ cache.hits >= 2

\* associativity + 1 distinct lines of one set that have all been accessed
ConflictGroups ==
    { L \in SUBSET hist.touched :
        /\ Cardinality(L) = cache.associativity + 1
        /\ \A x, y \in L : x % cache.num_sets = y % cache.num_sets }

\* C7: of any associativity + 1 accessed lines that share a set, at least
\* one is no longer resident, and accessing it again is a miss.
C7_ConflictEvicts ==
    \A L \in ConflictGroups :
        \E line \in L :
            /\ ~Resident(cache, line)
            /\ LET r == cache_access(cache, line * cache.line_size, FALSE)
               IN r.ret = cache.miss_penalty /\ r.cache.misses = cache.misses + 1

C7_Witness ==
    /\ ConflictGroups # {}
    /\ cache.associativity >= 2
    /\ cache.type = CACHE_SET_ASSOC

-----------------------------------------------------------------------------
(* A stand-alone bimodal predictor fed one branch at a time: bp_predict    *)
(* followed by bp_update with the actual outcome, as the unit test does.   *)

MaxBranches == 8
MaxPc == 3
PhtSizes == {1, 2}
BhrSize == 12

InitPredictor ==
    /\ \E n \in PhtSizes : bp = bp_create(PREDICTOR_BIMODAL, BhrSize, n)
    \* ghost: the shape of the outcome sequence and its first outcome
    /\ \E pattern \in {"constant", "alternating"}, first \in BOOLEAN :
          hist = [ pattern |-> pattern, first |-> first ]
    /\ ret = None
    /\ cpu = None /\ cpuB = None /\ cache = None /\ tom = None /\ codec = None
    /\ kernel = None

\* The outcome of the next branch of the sequence.
NextOutcome ==
    IF hist.pattern = "constant" \/ bp.total % 2 = 0
    THEN hist.first ELSE ~hist.first

Branch(pc) ==
    /\ bp.total < MaxBranches
    /\ LET p == bp_predict(bp, pc)
       IN /\ bp' = bp_update(p.bp, pc, NextOutcome, p.ret)
          /\ ret' = p.ret
    /\ UNCHANGED <<cpu, cpuB, hist, cache, tom, codec, kernel>>

NextPredictor == \E pc \in 0 .. MaxPc : Branch(pc)

SpecPredictor == InitPredictor /\ [][NextPredictor]_vars

LongEnough == bp.total >= 4 * bp.pht_size

\* C8: after a constant or strictly alternating outcome sequence of at
\* least 4 x pht_size branches, more than half the predictions were right.
C8_AccuracyAboveHalf == LongEnough => 2 * bp.correct > bp.total

\* C8 (amended): the bound holds for constant outcome sequences; every
\* table entry mispredicts at most once.
C8_ConstantAccuracy ==
    (LongEnough /\ hist.pattern = "constant") =>
        /\ 2 * bp.correct > bp.total
        /\ bp.total - bp.correct <= bp.pht_size

C8_Witness ==
    /\ LongEnough /\ hist.pattern = "constant" /\ ~hist.first
    /\ bp.pht_size = 2
    /\ bp.total - bp.correct = 2

-----------------------------------------------------------------------------
(* Instruction codec (instruction_set.c).  A buffer is a function from     *)
(* byte offsets to bytes; 8-byte operands are stored little-endian and     *)
(* carry the low WordBits bits of the value.                               *)

FORMAT_R == 0
FORMAT_I == 1
FORMAT_M == 2
FORMAT_J == 3
FORMAT_S == 4

TableRow(opcode, type, format) == [opcode |-> opcode, type |-> type, format |-> format]

instruction_table ==
    << TableRow(0, INST_NOP, FORMAT_R),   TableRow(1, INST_ADD, FORMAT_R),
       TableRow(2, INST_SUB, FORMAT_R),   TableRow(3, INST_MUL, FORMAT_R),
       TableRow(4, INST_DIV, FORMAT_R),   TableRow(5, INST_AND, FORMAT_R),
       TableRow(6, INST_OR, FORMAT_R),    TableRow(7, INST_XOR, FORMAT_R),
       TableRow(8, INST_NOT, FORMAT_R),   TableRow(9, INST_SHL, FORMAT_R),
       TableRow(10, INST_SHR, FORMAT_R),  TableRow(11, INST_LD, FORMAT_M),
       TableRow(12, INST_ST, FORMAT_M),   TableRow(13, INST_JMP, FORMAT_J),
       TableRow(14, INST_JZ, FORMAT_J),   TableRow(15, INST_JNZ, FORMAT_J),
       TableRow(16, INST_CALL, FORMAT_J), TableRow(17, INST_RET, FORMAT_J),
       TableRow(18, INST_CMP, FORMAT_R),  TableRow(19, INST_MOV, FORMAT_R),
       TableRow(20, INST_HLT, FORMAT_S) >>

\* The first index of a non-empty set of row numbers.
FirstOf(rows) == CHOOSE i \in rows : \A j \in rows : i <= j

\* The table row the scan of decode_instruction stops at, 0 when it runs
\* off the end.
RowOfOpcode(opcode) ==
    LET rows == { i \in 1 .. Len(instruction_table) : instruction_table[i].opcode = opcode }
    IN IF rows = {} THEN 0 ELSE FirstOf(rows)

\* The same for the scan of encode_instruction.
RowOfType(type) ==
    LET rows == { i \in 1 .. Len(instruction_table) : instruction_table[i].type = type }
    IN IF rows = {} THEN 0 ELSE FirstOf(rows)

\* *(uint64_t*)(buf + off)
GetU64(buf, off) ==
    W(buf[off] + Byte * buf[off + 1]
        + Byte * Byte * (buf[off + 2] % (Word \div (Byte * Byte))))

\* *(uint64_t*)(buf + off) = v
PutU64(buf, off, v) ==
    [x \in DOMAIN buf |->
        IF x \in off .. off + 7 THEN ByteOf(v, x - off) ELSE buf[x]]

\* Mutant of the rs2 field: read from the low nibble.
decode_rs2_LowNibble(b) == b % 16

\* inst.rs2 = (ptr[2] >> 4) & 0x0F
decode_rs2(b) == (b \div 16) % 16

ZeroInstruction ==
    [ type |-> INST_NOP, format |-> FORMAT_R, opcode |-> 0,
      rd |-> 0, rs1 |-> 0, rs2 |-> 0, imm |-> 0, address |-> 0 ]

decode_instruction(mem, pc) ==
    LET opcode == mem[pc]
        row == RowOfOpcode(opcode)
        i0 == [ZeroInstruction EXCEPT !.opcode = opcode]
        i1 == IF row = 0 THEN i0
              ELSE [i0 EXCEPT !.type = instruction_table[row].type,
                              !.format = instruction_table[row].format]
    IN CASE i1.format \in {FORMAT_R, FORMAT_M} ->
              [i1 EXCEPT !.rd = (mem[pc + 1] \div 16) % 16,
                         !.rs1 = mem[pc + 1] % 16,
                         !.rs2 = decode_rs2(mem[pc + 2]),
                         !.address = IF i1.format = FORMAT_M
                                     THEN GetU64(mem, pc + 3) ELSE 0]
         [] i1.format \in {FORMAT_I, FORMAT_J} ->
              [i1 EXCEPT !.rd = (mem[pc + 1] \div 16) % 16,
                         !.imm = GetU64(mem, pc + 2)]
         [] OTHER -> i1

\* encode_instruction(inst, mem + at): the memory after the call and the
\* size returned.
encode_instruction(inst, mem, at) ==
    LET row == RowOfType(inst.type)
        b0 == IF row = 0 THEN mem
              ELSE [mem EXCEPT ![at] = instruction_table[row].opcode]
        regs == [b0 EXCEPT ![at + 1] = ((inst.rd * 16) % Byte) + (inst.rs1 % 16),
                           ![at + 2] = (inst.rs2 * 16) % Byte]
    IN CASE inst.format = FORMAT_R -> [mem |-> regs, ret |-> 3]
         [] inst.format = FORMAT_M ->
              [mem |-> PutU64(regs, at + 3, inst.address), ret |-> 11]
         [] inst.format \in {FORMAT_I, FORMAT_J} ->
              [mem |-> PutU64([b0 EXCEPT ![at + 1] = (inst.rd * 16) % Byte],
                              at + 2, inst.imm),
               ret |-> 10]
         [] OTHER -> [mem |-> b0, ret |-> 1]

get_instruction_size(mem, pc) ==
    LET format == decode_instruction(mem, pc).format
    IN CASE format = FORMAT_R -> 3
         [] format = FORMAT_M -> 11
         [] format = FORMAT_I -> 10
         [] format = FORMAT_J -> 10
         [] OTHER -> 1

(* The codec driven through encode, decode and size queries.               *)

BufLen == 12
RegSamples == {0, 7, 15}
\* <<imm, address>>
OperandSamples ==
    { <<0, UINT64_MAX>>, <<UINT64_MAX, 0>>, <<4660, 1>>, <<Byte, 4660>> }
FillBytes == {0, 255}

\* Every table kind with its table format and any register and operand
\* fields.
CodecInputs ==
    { [ type |-> r.type, format |-> r.format, opcode |-> r.opcode,
        rd |-> rd, rs1 |-> rs1, rs2 |-> rs2, imm |-> op[1], address |-> op[2] ] :
        r \in { instruction_table[i] : i \in 1 .. Len(instruction_table) },
        rd \in RegSamples, rs1 \in RegSamples, rs2 \in RegSamples,
        op \in OperandSamples }

InitCodec ==
    /\ \E fill \in FillBytes, at \in {0, 1} :
          codec = [ phase |-> "empty", mem |-> [x \in 0 .. BufLen - 1 |-> fill],
                    at |-> at, inst |-> ZeroInstruction, size |-> 0,
                    decoded |-> ZeroInstruction, length |-> 0 ]
    /\ cpu = None /\ cpuB = None /\ ret = None /\ hist = None
    /\ cache = None /\ bp = None /\ tom = None
    /\ kernel = None

Encode(inst) ==
    /\ codec.phase = "empty"
    /\ LET r == encode_instruction(inst, codec.mem, codec.at)
       IN codec' = [codec EXCEPT !.phase = "encoded", !.inst = inst,
                                 !.mem = r.mem, !.size = r.ret]
    /\ UNCHANGED <<cpu, cpuB, ret, hist, cache, bp, tom, kernel>>

Decode ==
    /\ codec.phase = "encoded"
    /\ codec' = [codec EXCEPT !.phase = "decoded",
                              !.decoded = decode_instruction(codec.mem, codec.at)]
    /\ UNCHANGED <<cpu, cpuB, ret, hist, cache, bp, tom, kernel>>

GetInstructionSize ==
    /\ codec.phase = "decoded"
    /\ codec' = [codec EXCEPT !.phase = "sized",
                              !.length = get_instruction_size(codec.mem, codec.at)]
    /\ UNCHANGED <<cpu, cpuB, ret, hist, cache, bp, tom, kernel>>

NextCodec ==
    \/ \E inst \in CodecInputs : Encode(inst)
    \/ Decode
    \/ GetInstructionSize

SpecCodec == InitCodec /\ [][NextCodec]_vars

\* Kind, format, the format's operand and the encoded length survive.
RoundTripCore ==
    /\ codec.decoded.type = codec.inst.type
    /\ codec.decoded.format = codec.inst.format
    /\ codec.inst.format = FORMAT_M => codec.decoded.address = codec.inst.address
    /\ codec.inst.format = FORMAT_J => codec.decoded.imm = codec.inst.imm
    /\ codec.size = codec.length

\* C9: decoding an encoded table instruction gives back its kind, format,
\* all three register fields and the format's operand, and the encoded
\* length is the instruction size.
C9_RoundTrip ==
    codec.phase = "sized" =>
        /\ RoundTripCore
        /\ codec.decoded.rd = codec.inst.rd
        /\ codec.decoded.rs1 = codec.inst.rs1
        /\ codec.decoded.rs2 = codec.inst.rs2

\* C9 (amended): as above for the register fields the format carries: rd,
\* rs1 and rs2 in register and memory format, rd in jump format, none in
\* system format.
C9_RoundTripEncodedFields ==
    codec.phase = "sized" =>
        /\ RoundTripCore
        /\ codec.inst.format \in {FORMAT_R, FORMAT_M, FORMAT_J} =>
               codec.decoded.rd = codec.inst.rd
        /\ codec.inst.format \in {FORMAT_R, FORMAT_M} =>
               /\ codec.decoded.rs1 = codec.inst.rs1
               /\ codec.decoded.rs2 = codec.inst.rs2

C9_Witness ==
    /\ codec.phase = "sized"
    /\ codec.inst.format = FORMAT_M
    /\ codec.inst.rd = 7 /\ codec.inst.rs1 = 15 /\ codec.inst.rs2 = 15
    /\ codec.inst.address = UINT64_MAX
    /\ codec.decoded.address = UINT64_MAX
    /\ codec.length = 11

-----------------------------------------------------------------------------
(* cpu_load_program called with arbitrary programs and addresses on small  *)
(* memories.                                                               *)

MaxLoads == 2
MaxProgramLen == 2
LoadMemSizes == {8, 16}
LoadAddresses == {0, 6, 7, 8, 15, 16, UINT64_MAX - 1, UINT64_MAX}
LoadPrograms ==
    UNION { [1 .. n -> {INST_ADD, INST_MOV}] : n \in 0 .. MaxProgramLen }

InitLoad ==
    /\ \E mem_size \in LoadMemSizes, uninit \in UninitPatterns, now \in Times :
          cpu = cpu_create(mem_size, uninit, now)
    /\ ret = None
    \* ghost: the number of calls and the arguments of the last one
    /\ hist = [ loads |-> 0, program |-> << >>, address |-> 0 ]
    /\ cpuB = None /\ cache = None /\ bp = None /\ tom = None /\ codec = None
    /\ kernel = None

Load(program, address) ==
    /\ hist.loads < MaxLoads
    /\ LET r == cpu_load_program(cpu, program, Len(program), address)
       IN cpu' = r.cpu /\ ret' = r.ret
    /\ hist' = [ loads |-> hist.loads + 1, program |-> program, address |-> address ]
    /\ UNCHANGED <<cpuB, cache, bp, tom, codec, kernel>>

NextLoad == \E program \in LoadPrograms, address \in LoadAddresses : Load(program, address)

SpecLoad == InitLoad /\ [][NextLoad]_vars

\* [address, address + size) lies inside memory, in unbounded arithmetic.
RangeInside(c, size, address) == address + size <= c.mem_size

\* C10: a load whose range is not inside memory returns -1 and changes
\* neither memory nor pc; any other load returns 0, sets pc to the address
\* and changes exactly the size bytes at the address to the program.
C10_LoadContract ==
    [][ hist'.loads = hist.loads + 1 =>
          LET program == hist'.program
              address == hist'.address
              size == Len(program)
          IN IF RangeInside(cpu, size, address)
             THEN /\ ret' = 0
                  /\ cpu'.pc = address
                  /\ \A x \in 0 .. cpu.mem_size - 1 :
                        MemByte(cpu', x) =
                            IF x \in address .. address + size - 1
                            THEN program[x - address + 1]
                            ELSE MemByte(cpu, x)
             ELSE /\ ret' = -1
                  /\ cpu'.memory = cpu.memory
                  /\ cpu'.pc = cpu.pc
                  /\ ~cpu'.oob ]_vars

-----------------------------------------------------------------------------
(* Out-of-order engine (tomasulo.c).  Stations, reorder-buffer entries and *)
(* the engine carry ghost fields: id is the issue number of the            *)
(* instruction that took the slot, src the issue number of the instruction *)
(* whose result an entry holds, log the src of every result written to the *)
(* register file, in order.                                                *)

ZeroStation ==
    [ busy |-> FALSE, op |-> INST_NOP, vj |-> 0, vk |-> 0, qj |-> 0, qk |-> 0,
      dest |-> 0, address |-> 0, result |-> 0, result_ready |-> FALSE, id |-> 0 ]

ZeroROBEntry ==
    [ busy |-> FALSE, op |-> INST_NOP, result |-> 0, dest |-> 0,
      ready |-> FALSE, exception |-> FALSE, id |-> 0, src |-> 0 ]

tomasulo_create(rs_count, rob_size) ==
    [ rs |-> [i \in 0 .. rs_count - 1 |-> ZeroStation],
      rob |-> [j \in 0 .. rob_size - 1 |-> ZeroROBEntry],
      registers |-> [r \in 0 .. 31 |-> 0],
      reg_status |-> [r \in 0 .. 31 |-> 0],
      rs_count |-> rs_count, rob_size |-> rob_size,
      rs_head |-> 0, rs_tail |-> 0, rob_head |-> 0, rob_tail |-> 0,
      clock |-> 0, instructions_issued |-> 0, instructions_completed |-> 0,
      instructions_committed |-> 0, log |-> << >> ]

\* Mutant of the station scan: the loop stops one station early.
FreeStations_SkipLast(t) == { i \in 0 .. t.rs_count - 2 : ~t.rs[i].busy }

\* The stations the scan of tomasulo_issue can take (tomasulo.c:93-94).
FreeStations(t) == { i \in 0 .. t.rs_count - 1 : ~t.rs[i].busy }

\* tomasulo_issue: the engine after the call and the value returned.
tomasulo_issue(t, inst) ==
    LET free == FreeStations(t)
    IN IF free = {} THEN [ tom |-> t, ret |-> FALSE ]
       ELSE
        LET i == CHOOSE x \in free : \A y \in free : x <= y
            id == t.instructions_issued + 1
            s0 == [t.rs[i] EXCEPT !.busy = TRUE, !.op = inst.type,
                                  !.dest = inst.rd, !.id = id]
            s1 == IF t.reg_status[inst.rs1] = 0
                  THEN [s0 EXCEPT !.vj = t.registers[inst.rs1], !.qj = 0]
                  ELSE [s0 EXCEPT !.qj = t.reg_status[inst.rs1]]
            s2 == IF t.reg_status[inst.rs2] = 0
                  THEN [s1 EXCEPT !.vk = t.registers[inst.rs2], !.qk = 0]
                  ELSE [s1 EXCEPT !.qk = t.reg_status[inst.rs2]]
            rob_idx == t.rob_tail
        IN [ tom |->
               [t EXCEPT
                  !.rs[i] = s2,
                  !.rob[rob_idx] = [@ EXCEPT !.busy = TRUE, !.op = inst.type,
                                             !.dest = inst.rd, !.ready = FALSE,
                                             !.exception = FALSE, !.id = id],
                  !.reg_status[inst.rd] = rob_idx + 1,
                  !.rob_tail = (t.rob_tail + 1) % t.rob_size,
                  !.instructions_issued = W(@ + 1)],
             ret |-> TRUE ]

\* The stations tomasulo_execute runs.
Executable(t) ==
    { i \in 0 .. t.rs_count - 1 :
        t.rs[i].busy /\ t.rs[i].qj = 0 /\ t.rs[i].qk = 0 }

station_result(s) ==
    CASE s.op = INST_ADD -> W(s.vj + s.vk)
      [] s.op = INST_SUB -> W(s.vj - s.vk)
      [] s.op = INST_MUL -> MulW(s.vj, s.vk)
      [] OTHER -> 0

tomasulo_execute(t) ==
    [t EXCEPT
       !.rs = [i \in 0 .. t.rs_count - 1 |->
                 IF i \in Executable(t)
                 THEN [t.rs[i] EXCEPT !.result = station_result(t.rs[i]),
                                      !.result_ready = TRUE]
                 ELSE t.rs[i]],
       !.instructions_completed = W(@ + Cardinality(Executable(t)))]

\* The reorder-buffer entries a result can go to: busy and not ready.
Waiting(t) == { j \in 0 .. t.rob_size - 1 : t.rob[j].busy /\ ~t.rob[j].ready }

\* Mutant of the entry scan: the scan runs from the last entry down.
FirstWaiting_FromEnd(t) ==
    CHOOSE x \in Waiting(t) : \A y \in Waiting(t) : x >= y

\* The entry the scan of tomasulo_writeback stops at (tomasulo.c:164-165).
FirstWaiting(t) ==
    CHOOSE x \in Waiting(t) : \A y \in Waiting(t) : x <= y

\* One pass of the station loop of tomasulo_writeback, from station i on:
\* the result goes to the first busy reorder-buffer entry that is not
\* ready, scanning from entry 0, and the station is freed.
RECURSIVE WritebackFrom(_, _)
WritebackFrom(t, i) ==
    IF i >= t.rs_count THEN t
    ELSE IF ~(t.rs[i].busy /\ t.rs[i].result_ready) THEN WritebackFrom(t, i + 1)
    ELSE
      LET delivered ==
            IF Waiting(t) = {} THEN t
            ELSE LET j == FirstWaiting(t)
                 IN [t EXCEPT !.rob[j] = [@ EXCEPT !.result = t.rs[i].result,
                                                   !.ready = TRUE,
                                                   !.src = t.rs[i].id]]
      IN WritebackFrom([delivered EXCEPT !.rs[i].busy = FALSE,
                                         !.rs[i].result_ready = FALSE],
                       i + 1)

tomasulo_writeback(t) == WritebackFrom(t, 0)

\* Mutant of tomasulo_commit: the loop body runs at most once.
tomasulo_commit_Once(t) ==
    LET entry == t.rob[t.rob_head]
    IN IF ~(entry.busy /\ entry.ready) THEN t
       ELSE
        LET written ==
              IF entry.exception THEN t
              ELSE [t EXCEPT !.registers[entry.dest] = entry.result,
                             !.reg_status[entry.dest] = 0,
                             !.log = Append(@, entry.src)]
        IN [written EXCEPT !.rob[t.rob_head].busy = FALSE,
                           !.rob_head = (t.rob_head + 1) % t.rob_size,
                           !.instructions_committed = W(@ + 1)]

RECURSIVE tomasulo_commit(_)
tomasulo_commit(t) ==
    LET entry == t.rob[t.rob_head]
    IN IF ~(entry.busy /\ entry.ready) THEN t
       ELSE
        LET written ==
              IF entry.exception THEN t
              ELSE [t EXCEPT !.registers[entry.dest] = entry.result,
                             !.reg_status[entry.dest] = 0,
                             !.log = Append(@, entry.src)]
        IN tomasulo_commit(
             [written EXCEPT !.rob[t.rob_head].busy = FALSE,
                             !.rob_head = (t.rob_head + 1) % t.rob_size,
                             !.instructions_committed = W(@ + 1)])

-----------------------------------------------------------------------------
(* The engine driven by arbitrary issue, execute, writeback and commit     *)
(* calls.                                                                  *)

MaxIssue == 3
MaxCompleted == 4
\* <<rs_count, rob_size>>
TomasuloSizes == { <<3, 4>>, <<2, 2>> }

Instr(type, rd, rs1, rs2) ==
    [ZeroInstruction EXCEPT !.type = type, !.rd = rd, !.rs1 = rs1, !.rs2 = rs2]

TomasuloInstructions ==
    { Instr(INST_ADD, 1, 0, 0), Instr(INST_ADD, 2, 1, 0),
      Instr(INST_MUL, 3, 0, 0), Instr(INST_SUB, 1, 2, 1) }

InitTomasulo ==
    /\ \E size \in TomasuloSizes : tom = tomasulo_create(size[1], size[2])
    /\ ret = << >>     \* what the last call returned: nothing yet
    /\ hist = << >>     \* ghost: the instructions issued so far
    /\ cpu = None /\ cpuB = None /\ cache = None /\ bp = None /\ codec = None
    /\ kernel = None

TomIssue(inst) ==
    /\ tom.instructions_issued < MaxIssue
    /\ LET r == tomasulo_issue(tom, inst)
       IN /\ tom' = r.tom
          /\ ret' = << r.ret >>
          /\ hist' = IF r.ret THEN Append(hist, inst) ELSE hist
    /\ UNCHANGED <<cpu, cpuB, cache, bp, codec, kernel>>

TomExecute ==
    /\ tom.instructions_completed < MaxCompleted
    /\ tom' = tomasulo_execute(tom)
    /\ ret' = << >>     \* a void function
    /\ UNCHANGED <<cpu, cpuB, hist, cache, bp, codec, kernel>>

TomWriteback ==
    /\ tom' = tomasulo_writeback(tom)
    /\ ret' = << >>     \* a void function
    /\ UNCHANGED <<cpu, cpuB, hist, cache, bp, codec, kernel>>

TomCommit ==
    /\ tom' = tomasulo_commit(tom)
    /\ ret' = << >>     \* a void function
    /\ UNCHANGED <<cpu, cpuB, hist, cache, bp, codec, kernel>>

NextTomasulo ==
    \/ \E inst \in TomasuloInstructions : TomIssue(inst)
    \/ TomExecute
    \/ TomWriteback
    \/ TomCommit

SpecTomasulo == InitTomasulo /\ [][NextTomasulo]_vars

\* C4: results reach the register file in issue order: the k-th result
\* written is the result of the k-th instruction issued.
C4_CommitInIssueOrder ==
    \A k \in 1 .. Len(tom.log) : tom.log[k] = k

-----------------------------------------------------------------------------
(* The pipeline stepped over a program loaded anywhere in memory,          *)
(* including right at its end.                                             *)

MaxEdgeCycles == 12

EdgeAddresses(program) == { LoadAddress, MemSize - Len(program) }

InitEdge ==
    /\ \E u \in UninitPatterns, t \in Times : cpu = cpu_create(MemSize, u, t)
    /\ ret = None
    /\ hist = [ loaded |-> FALSE, program |-> << >>, address |-> 0 ]
    /\ OtherIdle

EdgeLoad(program, address) ==
    /\ ~hist.loaded
    /\ LET r == cpu_load_program(cpu, program, Len(program), address)
       IN /\ cpu' = r.cpu
          /\ ret' = r.ret
    /\ hist' = [ loaded |-> TRUE, program |-> program, address |-> address ]
    /\ UNCHANGED <<cpuB, cache, bp, tom, codec, kernel>>

EdgeStep ==
    /\ hist.loaded
    /\ cpu.cycles < MaxEdgeCycles
    /\ cpu' = cpu_step(cpu)
    /\ UNCHANGED <<cpuB, ret, hist, cache, bp, tom, codec, kernel>>

NextEdge ==
    \/ \E program \in Programs : \E address \in EdgeAddresses(program) :
          EdgeLoad(program, address)
    \/ EdgeStep

SpecEdge == InitEdge /\ [][NextEdge]_vars

\* C11: no step reads or writes memory outside [0, mem_size): neither the
\* opcode fetch nor the 8-byte access of the Memory stage.
C11_AccessesInsideMemory == ~cpu.oob

AllBusy(t) == \A i \in 0 .. t.rs_count - 1 : t.rs[i].busy

\* C12: tomasulo_issue returns false exactly when every station is busy,
\* and a call that returns false changes nothing in the engine.
C12_IssueBackpressure ==
    [][ /\ ret' = << FALSE >> => (AllBusy(tom) /\ tom' = tom /\ hist' = hist)
        /\ ret' = << TRUE >> =>
              /\ ~AllBusy(tom)
              /\ tom'.instructions_issued = tom.instructions_issued + 1 ]_vars

C12_Witness ==
    /\ ret = << FALSE >>
    /\ AllBusy(tom)
    /\ tom.instructions_issued = tom.rs_count
    /\ tom.instructions_issued < MaxIssue

-----------------------------------------------------------------------------
(* cache_create called with arbitrary positive geometries.                 *)

MaxCacheSize == 12
CreateLineSizes == {1, 2, 4}
CreateWays == {1, 2, 3}
CacheTypes == { CACHE_DIRECT_MAPPED, CACHE_SET_ASSOC, CACHE_FULL_ASSOC }

InitCreate ==
    /\ cache = None
    /\ ret = None
    /\ hist = [ created |-> FALSE ]
    /\ cpu = None /\ cpuB = None /\ bp = None /\ tom = None /\ codec = None
    /\ kernel = None

CacheCreate(type, size, line_size, associativity) ==
    /\ ~hist.created
    /\ cache' = cache_create(type, size, line_size, associativity)
    /\ hist' = [ created |-> TRUE ]
    /\ UNCHANGED <<cpu, cpuB, ret, bp, tom, codec, kernel>>

NextCreate ==
    \E type \in CacheTypes, size \in 1 .. MaxCacheSize,
       line_size \in CreateLineSizes, associativity \in CreateWays :
        CacheCreate(type, size, line_size, associativity)

SpecCreate == InitCreate /\ [][NextCreate]_vars

\* C13: every cache that exists has at least one set and
\* num_sets x associativity x line_size = size.
C13_GeometryChecked ==
    hist.created =>
        /\ cache.num_sets >= 1
        /\ cache.num_sets * cache.associativity * cache.line_size = cache.size

\* C14: every cpu_step adds exactly 1 to the cycle counter, whatever the
\* stages did in that cycle, and cpu_run(cpu, N) adds exactly N.
C14_CycleCount ==
    [][ /\ CpuStep => cpu'.cycles = cpu.cycles + 1
        /\ CpuRun(TestCycles) => cpu'.cycles = cpu.cycles + TestCycles ]_vars

C14_Witness ==
    /\ hist.loaded
    /\ cpu.cycles = TestCycles
    /\ cpu.stalls > 0
    /\ cpu.l1_cache.misses > 0
    /\ cpu.l1_cache.hits > 0

-----------------------------------------------------------------------------
(* The cache unit test (tests/unit_tests.c:6-26): a stream of accesses to  *)
(* consecutive lines.                                                      *)

StreamLength == 1000
\* <<size, line_size, associativity>>: the test's cache and a small one
StreamGeometries == { <<8 * KiB, 64, 4>>, <<16, 2, 2>> }

InitStream ==
    /\ \E g \in StreamGeometries :
          cache = cache_create(CACHE_SET_ASSOC, g[1], g[2], g[3])
    /\ ret = None
    /\ hist = [ addr |-> 0 ]       \* the test's local variable addr
    /\ cpu = None /\ cpuB = None /\ bp = None /\ tom = None /\ codec = None
    /\ kernel = None

StreamAccess ==
    /\ cache.accesses < StreamLength
    /\ LET r == cache_access(cache, hist.addr, FALSE)
       IN cache' = r.cache /\ ret' = r.ret
    /\ hist' = [ addr |-> hist.addr + cache.line_size ]
    /\ UNCHANGED <<cpu, cpuB, bp, tom, codec, kernel>>

NextStream == StreamAccess

SpecStream == InitStream /\ [][NextStream]_vars

\* C15: after the whole stream the hit counter is greater than 0.
C15_StreamHits == cache.accesses = StreamLength => cache.hits > 0

-----------------------------------------------------------------------------
(* Process scheduler (kernel/scheduler.c).  PCBs live in the table pcbs,   *)
(* indexed by creation order; processes, the ready queues and              *)
(* current_process hold indices into it (0 is NULL).                       *)

PROC_NEW == 0
PROC_READY == 1
PROC_RUNNING == 2
PROC_BLOCKED == 3
PROC_TERMINATED == 4
MAX_PROCESSES == 64

pcb_create(pid, entry_point) ==
    [ pid |-> pid, state |-> PROC_NEW, priority |-> 7, quantum |-> 100,
      quantum_remaining |-> 100, pc |-> entry_point, sp |-> 32768, flags |-> 0,
      page_count |-> 0, heap_start |-> 0, heap_end |-> 0,
      start_time |-> 0, cpu_time |-> 0, wakeups |-> 0 ]

scheduler_init ==
    [ pcbs |-> << >>, processes |-> << >>, current_process |-> 0,
      process_count |-> 0,
      ready_queues |-> [q \in 0 .. 15 |-> << >>],
      system_time |-> 0, next_pid |-> 1 ]

\* queue_counts[priority]
QueueCount(sched, priority) == Len(sched.ready_queues[priority])

\* scheduler_add_process for the PCB at index p of the table.
scheduler_add_process(sched, p) ==
    IF sched.process_count >= MAX_PROCESSES THEN sched
    ELSE LET priority == sched.pcbs[p].priority % 16
             s1 == [sched EXCEPT !.processes = Append(@, p),
                                 !.process_count = @ + 1]
         IN IF QueueCount(s1, priority) < MAX_PROCESSES
            THEN [s1 EXCEPT !.ready_queues[priority] = Append(@, p),
                            !.pcbs[p].state = PROC_READY]
            ELSE s1

\* scheduler_next_process: the scheduler after the call and the PCB
\* returned (0 for NULL).
scheduler_next_process(sched) ==
    LET ready == { q \in 0 .. 15 : QueueCount(sched, q) > 0 }
    IN IF ready = {} THEN [ sched |-> sched, ret |-> 0 ]
       ELSE LET priority == CHOOSE q \in ready : \A r \in ready : q <= r
                next == Head(sched.ready_queues[priority])
            IN [ sched |->
                   [sched EXCEPT
                      !.ready_queues[priority] = Tail(@),
                      !.pcbs[next].state = PROC_RUNNING,
                      !.pcbs[next].quantum_remaining = sched.pcbs[next].quantum],
                 ret |-> next ]

scheduler_tick(sched) ==
    LET s0 == [sched EXCEPT !.system_time = W(@ + 1)]
        p == s0.current_process
        s1 == IF p = 0 THEN s0
              ELSE [s0 EXCEPT !.pcbs[p].cpu_time = W(@ + 1),
                              !.pcbs[p].quantum_remaining = W(@ + Word - 1)]
        s2 == IF p # 0 /\ s1.pcbs[p].quantum_remaining = 0
              THEN LET lowered == IF s1.pcbs[p].priority < 15
                                  THEN s1.pcbs[p].priority + 1
                                  ELSE s1.pcbs[p].priority
                       priority == lowered % 16
                   IN [s1 EXCEPT
                         !.pcbs[p].state = PROC_READY,
                         !.pcbs[p].priority = lowered,
                         !.ready_queues[priority] =
                             IF Len(@) < MAX_PROCESSES THEN Append(@, p) ELSE @,
                         !.current_process = 0]
              ELSE s1
    IN IF s2.current_process = 0
       THEN LET r == scheduler_next_process(s2)
            IN [r.sched EXCEPT !.current_process = r.ret]
       ELSE s2

(* The scheduler unit test (tests/unit_tests.c:54-87): processes with      *)
(* priorities 0, 1, 2, 0, 1, ... are added, then the scheduler ticks.      *)

TestProcesses == 5
TestTicks == 100

InitSched ==
    /\ kernel = scheduler_init
    /\ ret = None /\ hist = None
    /\ cpu = None /\ cpuB = None /\ cache = None /\ bp = None
    /\ tom = None /\ codec = None

\* One iteration of the test's creation loop: pcb_create with the next
\* pid, priority i % 3, scheduler_add_process.
SchedAdd ==
    /\ kernel.process_count < TestProcesses
    /\ kernel.system_time = 0
    /\ LET i == kernel.process_count
           pcb == [pcb_create(kernel.next_pid, 0) EXCEPT !.priority = i % 3]
           s1 == [kernel EXCEPT !.next_pid = @ + 1, !.pcbs = Append(@, pcb)]
       IN kernel' = scheduler_add_process(s1, Len(s1.pcbs))
    /\ UNCHANGED <<cpu, cpuB, ret, hist, cache, bp, tom, codec>>

SchedTick ==
    /\ kernel.process_count >= 2
    /\ kernel.system_time < TestTicks
    /\ kernel' = scheduler_tick(kernel)
    /\ UNCHANGED <<cpu, cpuB, ret, hist, cache, bp, tom, codec>>

NextSched == SchedAdd \/ SchedTick

SpecSched == InitSched /\ [][NextSched]_vars

\* C16: after the test's five processes were added and the scheduler
\* ticked 100 times, every added process has cpu_time > 0.
C16_EveryProcessRan ==
    (kernel.process_count = TestProcesses /\ kernel.system_time = TestTicks) =>
        \A i \in 1 .. kernel.process_count :
            kernel.pcbs[kernel.processes[i]].cpu_time > 0


(***************************************************************************)
(* Memory manager (src/kernel/memory_manager.c) and process creation       *)
(* (src/kernel/kernel.c).  page_bitmap is a sequence of booleans indexed   *)
(* from page 0 at position 1; page_tables[pid] is the sequence of the      *)
(* entries in use (page_table_sizes[pid] is its length, and a NULL table   *)
(* is recorded in has_table).                                              *)
(***************************************************************************)

PAGE_SIZE == 4096

mm_create(mem_size) ==
    LET total_pages == mem_size \div PAGE_SIZE
    IN [ mem_size |-> mem_size,
         page_tables |-> [p \in 0 .. MAX_PROCESSES - 1 |-> << >>],
         has_table |-> [p \in 0 .. MAX_PROCESSES - 1 |-> FALSE],
         free_pages |-> total_pages,
         total_pages |-> total_pages,
         page_bitmap |-> [i \in 1 .. total_pages |-> FALSE],
         page_faults |-> 0, tlb_hits |-> 0, tlb_misses |-> 0 ]

\* The first page i (0-based) at which the scan of mm_allocate_pages has
\* counted `pages` consecutive free pages, or -1 when the scan ends
\* without finding a run.
RunEnd(mm, pages) ==
    LET ends == { i \in 0 .. mm.total_pages - 1 :
                    /\ i + 1 >= pages
                    /\ \A j \in i + 1 - pages .. i : ~mm.page_bitmap[j + 1] }
    IN IF ends = {} THEN -1
       ELSE CHOOSE i \in ends : \A k \in ends : i <= k

\* The value mm_allocate_pages returns for a run starting at start_page.
allocate_result(start_page) == W(start_page * PAGE_SIZE)

\* mm_allocate_pages: the manager after the call and the returned address.
mm_allocate_pages(mm, pid, pages) ==
    IF pid >= MAX_PROCESSES \/ pages = 0 THEN [ mm |-> mm, ret |-> 0 ]
    ELSE LET e == RunEnd(mm, pages)
             start_page == e + 1 - pages
             size == Len(mm.page_tables[pid])
             entries == [ j \in 1 .. pages |->
                            [ virtual_addr |-> W((size + j - 1) * PAGE_SIZE),
                              physical_addr |-> W((start_page + j - 1) * PAGE_SIZE),
                              present |-> TRUE, writable |-> TRUE,
                              accessed |-> FALSE, dirty |-> FALSE,
                              timestamp |-> 0 ] ]
         IN IF e = -1 THEN [ mm |-> mm, ret |-> 0 ]
            ELSE [ mm |-> [mm EXCEPT
                             !.page_bitmap =
                                 [i \in 1 .. mm.total_pages |->
                                    IF i - 1 \in start_page .. start_page + pages - 1
                                    THEN TRUE ELSE @[i]],
                             !.free_pages = @ - pages,
                             !.has_table[pid] = TRUE,
                             !.page_tables[pid] = @ \o entries],
                   ret |-> allocate_result(start_page) ]

mm_free_pages(mm, pid) ==
    IF pid >= MAX_PROCESSES \/ ~mm.has_table[pid] THEN mm
    ELSE LET freed == { pte.physical_addr \div PAGE_SIZE :
                          pte \in { mm.page_tables[pid][i] :
                                      i \in 1 .. Len(mm.page_tables[pid]) } }
             inside == { n \in freed : n < mm.total_pages }
         IN [mm EXCEPT
               !.page_bitmap = [i \in 1 .. mm.total_pages |->
                                  IF i - 1 \in inside THEN FALSE ELSE @[i]],
               !.free_pages = @ + Cardinality(inside),
               !.page_tables[pid] = << >>,
               !.has_table[pid] = FALSE]

\* kernel_create: the scheduler and the memory manager of a new kernel.
kernel_create(mem_size) ==
    [ scheduler |-> scheduler_init, mm |-> mm_create(mem_size) ]

\* kernel_create_process: the kernel after the call and the returned pid.
kernel_create_process(k, entry_point) ==
    LET pid == k.scheduler.next_pid
        s1 == [k.scheduler EXCEPT !.next_pid = @ + 1]
        a == mm_allocate_pages(k.mm, pid, 4)
    IN IF a.ret = 0
       THEN [ kernel |-> [ scheduler |-> s1, mm |-> a.mm ], ret |-> 0 ]
       ELSE LET pcb == [pcb_create(pid, entry_point) EXCEPT !.page_count = 4]
                s2 == [s1 EXCEPT !.pcbs = Append(@, pcb)]
            IN [ kernel |-> [ scheduler |-> scheduler_add_process(s2, Len(s2.pcbs)),
                              mm |-> a.mm ],
                 ret |-> pid ]


(* Calls on a new kernel: mm_allocate_pages, mm_free_pages and             *)
(* kernel_create_process in any order.  ret holds the value returned by    *)
(* the last call and hist names that call.                                 *)

MaxCreates == 2
KernelMemSizes == { 4 * PAGE_SIZE, 5 * PAGE_SIZE + 100 }
AllocPids == { 1, MAX_PROCESSES }
AllocPages == { 0, 1, 2, 4 }

InitKernel ==
    /\ kernel \in { kernel_create(m) : m \in KernelMemSizes }
    /\ ret = << >>
    /\ hist = [ op |-> "kernel_create" ]
    /\ cpu = None /\ cpuB = None /\ cache = None /\ bp = None
    /\ tom = None /\ codec = None

MmAllocate(pid, pages) ==
    /\ LET a == mm_allocate_pages(kernel.mm, pid, pages)
       IN /\ kernel' = [kernel EXCEPT !.mm = a.mm]
          /\ ret' = << a.ret >>
    /\ hist' = [ op |-> "mm_allocate_pages" ]
    /\ UNCHANGED <<cpu, cpuB, cache, bp, tom, codec>>

MmFree(pid) ==
    /\ kernel' = [kernel EXCEPT !.mm = mm_free_pages(kernel.mm, pid)]
    /\ ret' = << >>
    /\ hist' = [ op |-> "mm_free_pages" ]
    /\ UNCHANGED <<cpu, cpuB, cache, bp, tom, codec>>

KernelCreateProcess ==
    /\ kernel.scheduler.next_pid <= MaxCreates
    /\ LET r == kernel_create_process(kernel, 0)
       IN /\ kernel' = r.kernel
          /\ ret' = << r.ret >>
    /\ hist' = [ op |-> "kernel_create_process" ]
    /\ UNCHANGED <<cpu, cpuB, cache, bp, tom, codec>>

NextKernel ==
    \/ \E pid \in AllocPids, pages \in AllocPages : MmAllocate(pid, pages)
    \/ \E pid \in AllocPids : MmFree(pid)
    \/ KernelCreateProcess

SpecKernel == InitKernel /\ [][NextKernel]_vars

\* C17: a call of mm_allocate_pages that reserves pages returns a non-zero
\* address, and a call of kernel_create_process made while four contiguous
\* pages are free returns a positive pid; both also on a new kernel.
C17_SuccessIsNonZero ==
    [][ /\ (hist'.op = "mm_allocate_pages"
              /\ kernel'.mm.free_pages < kernel.mm.free_pages)
           => ret' # << 0 >>
        /\ (hist'.op = "kernel_create_process" /\ RunEnd(kernel.mm, 4) # -1)
           => ret'[1] > 0 ]_vars


(***************************************************************************)
(* Virtual filesystem (src/kernel/vfs.c).  files is the sequence of the    *)
(* file_count entries in use (descriptor fd is position fd + 1); a file's  *)
(* data is kept as the function from the offsets written so far to their  *)
(* bytes, every other offset below capacity holding the 0 of the memset.   *)
(***************************************************************************)

MAX_FILES == 128

vfs_create == [ files |-> << >>, file_count |-> 0, current_dir |-> "/" ]

DataAt(file, offset) ==
    IF offset \in DOMAIN file.data THEN file.data[offset] ELSE 0

\* The position of the first file called name, 0 when there is none.
FileNamed(vfs, name) ==
    LET found == { i \in 1 .. vfs.file_count : vfs.files[i].name = name }
    IN IF found = {} THEN 0 ELSE CHOOSE i \in found : \A k \in found : i <= k

vfs_create_file(vfs, name, size) ==
    IF vfs.file_count >= MAX_FILES \/ FileNamed(vfs, name) # 0
    THEN [ vfs |-> vfs, ret |-> -1 ]
    ELSE [ vfs |-> [vfs EXCEPT
                      !.files = Append(@, [ name |-> name, data |-> << >>,
                                            size |-> size,
                                            capacity |-> size + 1024,
                                            is_open |-> FALSE ]),
                      !.file_count = @ + 1],
           ret |-> vfs.file_count ]

vfs_open_file(vfs, name) ==
    LET i == FileNamed(vfs, name)
    IN IF i = 0 THEN [ vfs |-> vfs, ret |-> -1 ]
       ELSE [ vfs |-> [vfs EXCEPT !.files[i].is_open = TRUE], ret |-> i - 1 ]

\* vfs_read_file: the returned count and the bytes copied to the buffer.
vfs_read_file(vfs, fd, size) ==
    IF fd < 0 \/ fd >= vfs.file_count THEN [ ret |-> -1, buffer |-> << >> ]
    ELSE LET file == vfs.files[fd + 1]
             to_read == IF size > file.size THEN file.size ELSE size
         IN IF ~file.is_open THEN [ ret |-> -1, buffer |-> << >> ]
            ELSE [ ret |-> to_read,
                   buffer |-> [ i \in 1 .. to_read |-> DataAt(file, i - 1) ] ]

\* The offset at which vfs_write_file stores the first byte.
write_offset(file) == file.size

vfs_write_file(vfs, fd, data) ==
    IF fd < 0 \/ fd >= vfs.file_count THEN [ vfs |-> vfs, ret |-> -1 ]
    ELSE LET file == vfs.files[fd + 1]
             size == Len(data)
             doubled == file.capacity * 2
             new_capacity ==
                 IF file.size + size > file.capacity
                 THEN IF doubled < file.size + size
                      THEN file.size + size + 1024 ELSE doubled
                 ELSE file.capacity
             at == write_offset(file)
             written == [ o \in DOMAIN file.data \cup (at .. at + size - 1) |->
                            IF o \in at .. at + size - 1
                            THEN data[o - at + 1] ELSE file.data[o] ]
         IN IF ~file.is_open THEN [ vfs |-> vfs, ret |-> -1 ]
            ELSE [ vfs |-> [vfs EXCEPT !.files[fd + 1].data = written,
                                       !.files[fd + 1].capacity = new_capacity,
                                       !.files[fd + 1].size = @ + size],
                   ret |-> size ]

(* Calls on a new filesystem.  ret holds the value returned by the last    *)
(* call; hist names that call, its descriptor, the bytes it was given and  *)
(* the bytes it delivered.                                                 *)

MaxWrites == 2
FileNames == { "test.txt", "other.txt" }
FileSizes == { 0, 2, 1024 }
FileDescriptors == { -1, 0, 1, 2 }
WriteData == { << 72 >>, << 72, 105 >>, << 0, 33, 72 >> }
ReadSizes == { 1, 3, 100 }

InitVfs ==
    /\ kernel = vfs_create
    /\ ret = << >>
    /\ hist = [ op |-> "vfs_create", fd |-> -1, data |-> << >>,
                buffer |-> << >>, writes |-> 0 ]
    /\ cpu = None /\ cpuB = None /\ cache = None /\ bp = None
    /\ tom = None /\ codec = None

VfsCreateFile(name, size) ==
    /\ LET r == vfs_create_file(kernel, name, size)
       IN kernel' = r.vfs /\ ret' = << r.ret >>
    /\ hist' = [hist EXCEPT !.op = "vfs_create_file", !.fd = -1,
                            !.data = << >>, !.buffer = << >>]
    /\ UNCHANGED <<cpu, cpuB, cache, bp, tom, codec>>

VfsOpenFile(name) ==
    /\ LET r == vfs_open_file(kernel, name)
       IN kernel' = r.vfs /\ ret' = << r.ret >>
    /\ hist' = [hist EXCEPT !.op = "vfs_open_file", !.fd = -1,
                            !.data = << >>, !.buffer = << >>]
    /\ UNCHANGED <<cpu, cpuB, cache, bp, tom, codec>>

VfsWriteFile(fd, data) ==
    /\ hist.writes < MaxWrites
    /\ LET r == vfs_write_file(kernel, fd, data)
       IN kernel' = r.vfs /\ ret' = << r.ret >>
    /\ hist' = [hist EXCEPT !.op = "vfs_write_file", !.fd = fd,
                            !.data = data, !.buffer = << >>,
                            !.writes = @ + 1]
    /\ UNCHANGED <<cpu, cpuB, cache, bp, tom, codec>>

VfsReadFile(fd, size) ==
    /\ LET r == vfs_read_file(kernel, fd, size)
       IN /\ ret' = << r.ret >>
          /\ hist' = [hist EXCEPT !.op = "vfs_read_file", !.fd = fd,
                                  !.data = << >>, !.buffer = r.buffer]
    /\ UNCHANGED <<kernel, cpu, cpuB, cache, bp, tom, codec>>

NextVfs ==
    \/ \E name \in FileNames, size \in FileSizes : VfsCreateFile(name, size)
    \/ \E name \in FileNames : VfsOpenFile(name)
    \/ \E fd \in FileDescriptors, data \in WriteData : VfsWriteFile(fd, data)
    \/ \E fd \in FileDescriptors, size \in ReadSizes : VfsReadFile(fd, size)

SpecVfs == InitVfs /\ [][NextVfs]_vars

\* A descriptor of a file that is open.
OpenFd(fd) ==
    /\ fd >= 0 /\ fd < kernel.file_count
    /\ kernel.files[fd + 1].is_open

\* C18: a vfs_write_file of n bytes on an open file returns n, and a
\* vfs_read_file of at least n bytes that follows it on the same
\* descriptor returns n and delivers the bytes just written, whatever the
\* size the file was created with.
C18_WriteReadRoundTrip ==
    [][ /\ (hist'.op = "vfs_write_file" /\ OpenFd(hist'.fd))
           => ret' = << Len(hist'.data) >>
        /\ (/\ hist.op = "vfs_write_file" /\ OpenFd(hist.fd)
            /\ hist'.op = "vfs_read_file" /\ hist'.fd = hist.fd
            /\ \E size \in ReadSizes :
                  size >= Len(hist.data) /\ VfsReadFile(hist.fd, size))
           => /\ ret' = << Len(hist.data) >>
              /\ hist'.buffer = hist.data ]_vars


\* What a stage holds of an instruction: its pc, opcode and kind.
Held(pr) == << pr.pc, pr.opcode, pr.type >>

\* Stage s after the step holds what stage s - 1 held before it, or a
\* no-op when stage s - 1 was a bubble.
AdvancedByOne(before, after, s) ==
    IF before.pipeline[s - 1].bubble
    THEN after.pipeline[s].type = INST_NOP
    ELSE Held(after.pipeline[s]) = Held(before.pipeline[s - 1])

\* C19: after one cpu_step each of Execute, Memory, Writeback and Commit
\* holds the instruction (pc, opcode, kind) that the stage before it held
\* before the step, or a no-op if that stage was a bubble.
C19_StageAdvance ==
    [][ CpuStep => \A s \in STAGE_EXECUTE .. STAGE_COMMIT :
                      AdvancedByOne(cpu, cpu', s) ]_vars


C19_Witness ==
    /\ hist.loaded
    /\ Held(cpu.pipeline[STAGE_COMMIT]) = << LoadAddress, INST_MOV, INST_MOV >>
    /\ cpu.stalls > 0

(* The decisions of one cpu_step and the state each of them reads.         *)

\* The state stage_decode runs on inside cpu_step.
SeenByDecode(c) ==
    stage_execute(stage_memory(stage_writeback(stage_commit(c))))

\* The state stage_fetch runs on inside cpu_step.
SeenByFetch(c) == stage_decode(SeenByDecode(c))

\* The stall test of stage_fetch (pipeline.c:86).
fetch_stalled(c) == c.pipeline[STAGE_FETCH].stall

\* The misprediction test of stage_fetch (pipeline.c:92-99).
fetch_mispredicted(c) ==
    LET ex == c.pipeline[STAGE_EXECUTE]
    IN /\ IsJump(ex.type)
       /\ (ex.result # 0) # bp_predict(c.bp, ex.pc).ret

\* C20: every decision of a cpu_step is the one the state at the start of
\* the step gives: Decode's hazard scan, Decode's register read, Fetch's
\* stall test and Fetch's misprediction test read nothing that another
\* stage wrote earlier in the same step.
C20_AtomicStep ==
    [][ CpuStep =>
          /\ decode_hazard(SeenByDecode(cpu)) = decode_hazard(cpu)
          /\ decode_read(SeenByDecode(cpu)) = decode_read(cpu)
          /\ fetch_stalled(SeenByFetch(cpu)) = fetch_stalled(cpu)
          /\ fetch_mispredicted(SeenByFetch(cpu)) = fetch_mispredicted(cpu) ]_vars

\* Decode finds a hazard in the step that starts in state c.
HazardInStep(c) ==
    /\ ~c.pipeline[STAGE_FETCH].bubble
    /\ decode_hazard(SeenByDecode(c))

\* C21: a hazard stall neither loses nor duplicates an instruction.  In a
\* step in which Decode finds a hazard, Decode holds a no-op and the
\* program counter and the instruction in Fetch are unchanged; Commit
\* has cleared the stall flag before Decode runs; in a step without a
\* hazard the instruction Fetch held enters Decode and Fetch takes the
\* instruction at the program counter, which advances by one.
C21_StallKeepsInstructions ==
    [][ CpuStep =>
          /\ ~fetch_stalled(SeenByDecode(cpu))
          /\ HazardInStep(cpu) =>
                /\ cpu'.pipeline[STAGE_DECODE].type = INST_NOP
                /\ cpu'.pc = cpu.pc
                /\ Held(cpu'.pipeline[STAGE_FETCH]) = Held(cpu.pipeline[STAGE_FETCH])
                /\ cpu'.stalls = cpu.stalls + 2
          /\ ~HazardInStep(cpu) =>
                /\ Held(cpu'.pipeline[STAGE_DECODE]) = Held(cpu.pipeline[STAGE_FETCH])
                /\ cpu'.pipeline[STAGE_FETCH].pc = cpu.pc
                /\ cpu'.pc = cpu.pc + 1 ]_vars

C21_Witness ==
    /\ hist.loaded
    /\ cpu.stalls > 0
    /\ ~cpu.pipeline[STAGE_FETCH].stall
    /\ cpu.pipeline[STAGE_DECODE].type # INST_NOP
    /\ cpu.pipeline[STAGE_DECODE].pc > LoadAddress


-----------------------------------------------------------------------------
(* The engine with tomasulo_execute, tomasulo_writeback and                *)
(* tomasulo_commit called again and again (weak fairness on each), issues  *)
(* arriving at any time.  instructions_completed, which grows with every   *)
(* execute call on a station that is still busy, is kept at MaxCompleted   *)
(* once it reaches it; nothing in the engine reads it.                     *)

TomExecuteAgain ==
    /\ tom' = [tomasulo_execute(tom) EXCEPT
                 !.instructions_completed = Min(@, MaxCompleted)]
    /\ ret' = << >>
    /\ UNCHANGED <<cpu, cpuB, hist, cache, bp, codec, kernel>>

NextProgress ==
    \/ \E inst \in TomasuloInstructions : TomIssue(inst)
    \/ TomExecuteAgain
    \/ TomWriteback
    \/ TomCommit

SpecProgress ==
    /\ InitTomasulo
    /\ [][NextProgress]_vars
    /\ WF_vars(TomExecuteAgain) /\ WF_vars(TomWriteback) /\ WF_vars(TomCommit)

\* C22: while execute, writeback and commit keep being called, every
\* issued instruction eventually commits: once k instructions have been
\* issued, eventually k have been committed, also when one of them was
\* issued with a pending-producer tag.
C22_Progress ==
    \A k \in 1 .. MaxIssue :
        (tom.instructions_issued >= k) ~> (tom.instructions_committed >= k)


\* The register file after executing the instructions one after the
\* other, in issue order.
RECURSIVE InOrder(_, _)
InOrder(registers, insts) ==
    IF insts = << >> THEN registers
    ELSE LET inst == Head(insts)
             value == station_result([ op |-> inst.type,
                                       vj |-> registers[inst.rs1],
                                       vk |-> registers[inst.rs2] ])
         IN InOrder([registers EXCEPT ![inst.rd] = value], Tail(insts))

\* C23: out-of-order execution gives what in-order execution gives: once
\* every issued instruction has committed the register file is the one
\* sequential execution in issue order produces, and the value a
\* reorder-buffer entry holds for commit is the result of the instruction
\* that was issued into that entry.
C23_InOrderEquivalent ==
    /\ (tom.instructions_issued > 0
          /\ tom.instructions_committed = tom.instructions_issued)
       => tom.registers = InOrder([r \in 0 .. 31 |-> 0], hist)
    /\ \A j \in 0 .. tom.rob_size - 1 :
          (tom.rob[j].busy /\ tom.rob[j].ready) => tom.rob[j].src = tom.rob[j].id


\* C24: tomasulo_issue never takes a reorder-buffer entry that still holds
\* an uncommitted instruction: a successful issue finds the entry at
\* rob_tail free, and the instructions issued and not yet committed never
\* outnumber the entries.
C24_RobNotOverwritten ==
    [][ /\ ret' = << TRUE >> => ~tom.rob[tom.rob_tail].busy
        /\ tom'.instructions_issued - tom'.instructions_committed
              <= tom'.rob_size ]_vars


\* The reorder-buffer entries in flight whose destination is register r.
Producers(t, r) ==
    { j \in 0 .. t.rob_size - 1 : t.rob[j].busy /\ t.rob[j].dest = r }

\* C25: reg_status[r] is 0 when no uncommitted entry writes r, and else
\* names (index + 1) the most recently issued uncommitted entry that
\* writes r; a commit of an older producer leaves the record of a later
\* one in place.
C25_RegStatusConsistent ==
    \A r \in 0 .. 31 :
        IF Producers(tom, r) = {} THEN tom.reg_status[r] = 0
        ELSE \E j \in Producers(tom, r) :
                /\ \A k \in Producers(tom, r) : tom.rob[k].id <= tom.rob[j].id
                /\ tom.reg_status[r] = j + 1


\* The stations tomasulo_writeback empties: busy with a ready result.
Finished(t) ==
    { i \in 0 .. t.rs_count - 1 : t.rs[i].busy /\ t.rs[i].result_ready }

\* The k-th element of S in the order given by key.
Nth(S, key, k) ==
    CHOOSE x \in S : Cardinality({ y \in S : key[y] < key[x] }) = k - 1

\* A writeback from t to t2 gives the result of the k-th finished station
\* to the k-th waiting entry in the order `key`, marks it ready, leaves the
\* other waiting entries not ready and frees every finished station.
WritebackDelivers(t, t2, key) ==
    LET n == Min(Cardinality(Finished(t)), Cardinality(Waiting(t)))
        station(k) == Nth(Finished(t), [i \in 0 .. t.rs_count - 1 |-> i], k)
        entry(k) == Nth(Waiting(t), key, k)
    IN /\ \A k \in 1 .. n :
             /\ t2.rob[entry(k)].ready
             /\ t2.rob[entry(k)].result = t.rs[station(k)].result
             /\ t2.rob[entry(k)].src = t.rs[station(k)].id
       /\ \A j \in Waiting(t) \ { entry(k) : k \in 1 .. n } : ~t2.rob[j].ready
       /\ \A i \in Finished(t) : ~t2.rs[i].busy /\ ~t2.rs[i].result_ready
       /\ \A i \in (0 .. t.rs_count - 1) \ Finished(t) : t2.rs[i] = t.rs[i]

FromHead(t, k) == (t.rob_head + k) % t.rob_size

\* The length of the longest run of busy and ready entries that starts at
\* rob_head; at most rob_size.
ReadyRun(t) ==
    LET runs == { n \in 0 .. t.rob_size :
                    \A k \in 0 .. n - 1 :
                        t.rob[FromHead(t, k)].busy /\ t.rob[FromHead(t, k)].ready }
    IN CHOOSE n \in runs : \A m \in runs : m <= n

\* C27: tomasulo_commit retires exactly the run of busy and ready entries
\* that starts at rob_head (all rob_size entries when all are busy and
\* ready) and stops at the first entry that is free or not ready: those
\* entries are freed, the others untouched, each retired entry without
\* the exception flag writes registers[dest] = result in order, and
\* rob_head advances by the length of the run inside 0 .. rob_size - 1.
C27_CommitRetiresReadyRun ==
    [][ TomCommit =>
          LET n == ReadyRun(tom)
              retired == { FromHead(tom, k) : k \in 0 .. n - 1 }
              writers(r) == { k \in 0 .. n - 1 :
                                /\ tom.rob[FromHead(tom, k)].dest = r
                                /\ ~tom.rob[FromHead(tom, k)].exception }
              last(r) == CHOOSE k \in writers(r) : \A m \in writers(r) : m <= k
          IN /\ tom'.instructions_committed = tom.instructions_committed + n
             /\ tom'.rob_head = FromHead(tom, n)
             /\ tom'.rob_head \in 0 .. tom.rob_size - 1
             /\ \A j \in 0 .. tom.rob_size - 1 :
                   IF j \in retired
                   THEN tom'.rob[j] = [tom.rob[j] EXCEPT !.busy = FALSE]
                   ELSE tom'.rob[j] = tom.rob[j]
             /\ \A r \in 0 .. 31 :
                   tom'.registers[r] =
                       IF writers(r) = {} THEN tom.registers[r]
                       ELSE tom.rob[FromHead(tom, last(r))].result
             /\ tom'.log = tom.log \o
                   [k \in 1 .. n |-> tom.rob[FromHead(tom, k - 1)].src] ]_vars

\* A commit has just emptied a reorder buffer that was full of ready
\* entries.
C27_Witness ==
    /\ ret = << >>
    /\ tom.instructions_issued = tom.rob_size
    /\ tom.instructions_committed = tom.rob_size
    /\ Len(tom.log) = tom.rob_size
    /\ tom.rob_head = tom.rob_tail
    /\ \A j \in 0 .. tom.rob_size - 1 : ~tom.rob[j].busy /\ tom.rob[j].ready


\* The station a successful tomasulo_issue fills: the free one of lowest
\* index.
IssuedStation(t) ==
    CHOOSE x \in FreeStations(t) : \A y \in FreeStations(t) : x <= y

\* A successful issue of inst from t to t2 captured its operands from t:
\* the register's value with an empty tag when reg_status shows no
\* producer, the producer's identifier as tag otherwise.
OperandsCaptured(t, t2, inst) ==
    LET s == t2.rs[IssuedStation(t)]
    IN /\ s.busy /\ s.op = inst.type /\ s.dest = inst.rd
       /\ IF t.reg_status[inst.rs1] = 0
          THEN s.vj = t.registers[inst.rs1] /\ s.qj = 0
          ELSE s.qj = t.reg_status[inst.rs1]
       /\ IF t.reg_status[inst.rs2] = 0
          THEN s.vk = t.registers[inst.rs2] /\ s.qk = 0
          ELSE s.qk = t.reg_status[inst.rs2]

\* The entry at rob_tail was allocated not ready, reg_status[rd] names it
\* and rob_tail advanced by one modulo rob_size.
EntryAllocated(t, t2, inst) ==
    /\ t2.rob[t.rob_tail].busy /\ ~t2.rob[t.rob_tail].ready
    /\ t2.rob[t.rob_tail].dest = inst.rd
    /\ t2.reg_status[inst.rd] = t.rob_tail + 1
    /\ t2.rob_tail = (t.rob_tail + 1) % t.rob_size

\* C28: a successful tomasulo_issue captures its operands from the state
\* before its own rename and only then allocates the entry at rob_tail and
\* renames rd, so that no operand tag of the new station names the
\* instruction's own reorder-buffer entry.
C28_IssueCapturesBeforeRename ==
    [][ ret' = << TRUE >> =>
          LET inst == hist'[Len(hist')]
              s == tom'.rs[IssuedStation(tom)]
          IN /\ OperandsCaptured(tom, tom', inst)
             /\ EntryAllocated(tom, tom', inst)
             /\ s.qj # tom.rob_tail + 1
             /\ s.qk # tom.rob_tail + 1 ]_vars


-----------------------------------------------------------------------------
(* Replacement: caches of one-byte lines accessed at arbitrary addresses,  *)
(* with the order of use recorded.                                         *)

MaxLruAccesses == 5
MaxLine == 4
\* <<type, associativity, num_sets>>; line_size is 1, size their product.
LruGeometries ==
    { <<CACHE_SET_ASSOC, 2, 2>>, <<CACHE_SET_ASSOC, 3, 1>>,
      <<CACHE_FULL_ASSOC, 3, 1>>, <<CACHE_DIRECT_MAPPED, 1, 2>> }

InitLru ==
    /\ \E g \in LruGeometries : cache = cache_create(g[1], g[2] * g[3], 1, g[2])
    /\ ret = None
    \* ghost: the distinct lines accessed so far, most recently used first
    /\ hist = << >>
    /\ cpu = None /\ cpuB = None /\ bp = None /\ tom = None /\ codec = None
    /\ kernel = None

\* s without its elements equal to x
Without(s, x) == SelectSeq(s, LAMBDA y : y # x)

LruAccess(addr, is_write) ==
    /\ cache.accesses < MaxLruAccesses
    /\ LET r == cache_access(cache, addr, is_write)
       IN cache' = r.cache /\ ret' = r.ret
    /\ hist' = << line_addr_of(cache, addr) >> \o Without(hist, line_addr_of(cache, addr))
    /\ UNCHANGED <<cpu, cpuB, bp, tom, codec, kernel>>

NextLru == \E addr \in 0 .. MaxLine, is_write \in BOOLEAN : LruAccess(addr, is_write)

SpecLru == InitLru /\ [][NextLru]_vars

\* The lines of set s in the order of use, most recent first.
UsedInSet(c, used, s) == SelectSeq(used, LAMBDA line : line % c.num_sets = s)

\* The ways of set s that are not valid.
InvalidWays(c, s) == { w \in 0 .. c.associativity - 1 : ~ValidAt(c, s, w) }

\* The lines accessed so far that are resident in set s.
ResidentIn(c, used, s) ==
    { line \in { used[k] : k \in 1 .. Len(used) } :
        line % c.num_sets = s /\ Resident(c, line) }

\* Position of a line in the order of use (1 is the most recent).
UseRank(used, line) == CHOOSE k \in 1 .. Len(used) : used[k] = line

\* The step from c to c2 was a miss on `line` that filled the first
\* invalid way of its set and evicted nothing.
FilledFirstInvalid(c, c2, used, line) ==
    LET s == line % c.num_sets
        w == CHOOSE x \in InvalidWays(c, s) : \A y \in InvalidWays(c, s) : x <= y
    IN /\ ValidAt(c2, s, w) /\ TagAt(c2, s, w) = line \div c.num_sets
       /\ ResidentIn(c, used, s) \subseteq ResidentIn(c2, used, s)

\* C29: in a set-associative cache a miss in a set with an invalid way
\* fills the first invalid way and evicts nothing; a miss in a full set
\* evicts the resident line of the set that was used least recently; so
\* the `associativity` most recently used lines of every set are resident.
C29_LruReplacement ==
    [][ cache.type = CACHE_SET_ASSOC =>
          LET line == hist'[1]
              s == line % cache.num_sets
              before == ResidentIn(cache, hist, s)
              after == ResidentIn(cache', hist', s)
          IN /\ cache'.misses > cache.misses =>
                  IF InvalidWays(cache, s) # {}
                  THEN FilledFirstInvalid(cache, cache', hist, line)
                  ELSE \E old \in before :
                          /\ after = (before \ {old}) \cup {line}
                          /\ \A other \in before :
                                UseRank(hist, other) <= UseRank(hist, old)
             /\ Resident(cache', line)
             /\ \A t \in 0 .. cache.num_sets - 1 :
                   \A k \in 1 .. Min(cache.associativity,
                                     Len(UsedInSet(cache, hist', t))) :
                       Resident(cache', UsedInSet(cache, hist', t)[k]) ]_vars

\* A full three-way set has evicted its least recently used line after one
\* of its lines was used again.
C29_Witness ==
    /\ cache.type = CACHE_SET_ASSOC /\ cache.associativity = 3
    /\ cache.hits > 0
    /\ Len(hist) = 4
    /\ cache.misses = 4
    /\ ~Resident(cache, hist[4])


\* C30: in a direct-mapped or fully-associative cache a miss fills the
\* first invalid way of the set, and replaces way 0 only when the set has
\* no invalid way; so a set holds every line used in it as long as these
\* are no more than its ways.
C30_FirstInvalidElseWayZero ==
    [][ cache.type # CACHE_SET_ASSOC =>
          LET line == hist'[1]
              s == line % cache.num_sets
          IN /\ cache'.misses > cache.misses =>
                  IF InvalidWays(cache, s) # {}
                  THEN FilledFirstInvalid(cache, cache', hist, line)
                  ELSE /\ TagAt(cache', s, 0) = line \div cache.num_sets
                       /\ \A w \in 1 .. cache.associativity - 1 :
                             TagAt(cache', s, w) = TagAt(cache, s, w)
             /\ \A t \in 0 .. cache.num_sets - 1 :
                   Len(UsedInSet(cache, hist', t)) <= cache.associativity =>
                       \A k \in 1 .. Len(UsedInSet(cache, hist', t)) :
                           Resident(cache', UsedInSet(cache, hist', t)[k]) ]_vars


\* Some valid way of set s holds the tag, read from the arrays directly.
HoldsTag(c, s, tag) ==
    \E w \in 0 .. c.associativity - 1 :
        <<s, w>> \in DOMAIN c.valid /\ c.valid[<<s, w>>] /\ c.tags[<<s, w>>] = tag

\* Set s has the same contents in c and c2.
SameSet(c, c2, s) ==
    \A w \in 0 .. c.associativity - 1 :
        /\ ValidAt(c2, s, w) = ValidAt(c, s, w)
        /\ TagAt(c2, s, w) = TagAt(c, s, w)
        /\ LruAt(c2, s * c.associativity + w) = LruAt(c, s * c.associativity + w)

\* C31: cache_access is a hit (latency 1, hits + 1) exactly when a valid
\* way of set (addr / line_size) mod num_sets holds tag
\* (addr / line_size) / num_sets, otherwise a miss (penalty 10,
\* misses + 1); afterwards the line is resident, no other set has changed,
\* and is_write makes no difference to the outcome or the state.
C31_HitIffTagPresent ==
    [][ LET addr == hist'.last
            line == addr \div cache.line_size
            s == line % cache.num_sets
            tag == line \div cache.num_sets
        IN /\ IF HoldsTag(cache, s, tag)
              THEN /\ ret' = 1
                   /\ cache'.hits = cache.hits + 1
                   /\ cache'.misses = cache.misses
              ELSE /\ ret' = 10
                   /\ cache'.misses = cache.misses + 1
                   /\ cache'.hits = cache.hits
           /\ HoldsTag(cache', s, tag)
           /\ \A t \in 0 .. cache.num_sets - 1 : t # s => SameSet(cache, cache', t)
           /\ cache_access(cache, addr, TRUE) = cache_access(cache, addr, FALSE) ]_cache

\* A hit in one set of a two-set cache while the other set holds a line.
C31_Witness ==
    /\ cache.num_sets = 2
    /\ cache.hits >= 1 /\ cache.misses >= 2 /\ ret = 1
    /\ \A s \in 0 .. 1 : ValidAt(cache, s, 0)


-----------------------------------------------------------------------------
(* A stand-alone predictor of any kind driven by arbitrary bp_predict and  *)
(* bp_update calls.                                                        *)

MaxBpCalls == 3
MaxBpPc == 2
\* <<type, bhr_size, pht_size>>
BpGeometries ==
    { <<PREDICTOR_BIMODAL, 2, 2>>, <<PREDICTOR_GSHARE, 2, 4>>,
      <<PREDICTOR_GSHARE, 1, 2>>, <<PREDICTOR_ALWAYS_TAKEN, 2, 2>> }

InitBp ==
    /\ \E g \in BpGeometries : bp = bp_create(g[1], g[2], g[3])
    /\ ret = << >>
    \* ghost: the number of calls made, the last call and its arguments,
    \* the slot the last bp_predict read, and whether the last call was a
    \* bp_update that directly followed the bp_predict of the same pc
    /\ hist = [ calls |-> 0, op |-> "none", pc |-> 0, taken |-> FALSE, slot |-> 0,
                paired |-> FALSE ]
    /\ cpu = None /\ cpuB = None /\ cache = None /\ tom = None /\ codec = None
    /\ kernel = None

BpPredict(pc) ==
    /\ hist.calls < MaxBpCalls
    /\ LET p == bp_predict(bp, pc)
       IN bp' = p.bp /\ ret' = << p.ret >>
    /\ hist' = [ calls |-> hist.calls + 1, op |-> "predict", pc |-> pc,
                 taken |-> FALSE, slot |-> bp_index(bp, pc), paired |-> FALSE ]
    /\ UNCHANGED <<cpu, cpuB, cache, tom, codec, kernel>>

BpUpdate(pc, taken, predicted) ==
    /\ hist.calls < MaxBpCalls
    /\ bp' = bp_update(bp, pc, taken, predicted)
    /\ ret' = << >>
    /\ hist' = [ calls |-> hist.calls + 1, op |-> "update", pc |-> pc,
                 taken |-> taken, slot |-> hist.slot,
                 paired |-> hist.op = "predict" /\ hist.pc = pc ]
    /\ UNCHANGED <<cpu, cpuB, cache, tom, codec, kernel>>

NextBp ==
    \/ \E pc \in 0 .. MaxBpPc : BpPredict(pc)
    \/ \E pc \in 0 .. MaxBpPc, taken \in BOOLEAN, predicted \in BOOLEAN :
          BpUpdate(pc, taken, predicted)

SpecBp == InitBp /\ [][NextBp]_vars

\* The counter value after an outcome: one step towards it within 0..3.
Saturated(v, taken) ==
    IF taken THEN (IF v + 1 > 3 THEN 3 ELSE v + 1)
    ELSE (IF v - 1 < 0 THEN 0 ELSE v - 1)

\* Only the counter at slot i differs between b and b2, moved by the outcome.
OnlySlotStepped(b, b2, i, taken) ==
    \A k \in 0 .. b.pht_size - 1 :
        PhtAt(b2, k) = IF k = i THEN Saturated(PhtAt(b, k), taken) ELSE PhtAt(b, k)

\* C32: every pattern-history counter is in 0..3; all start at 2;
\* bp_predict changes only the total; bp_update changes only the counter
\* at pc mod pht_size (bimodal) or (pc xor bhr) mod pht_size (gshare), by
\* one step saturating at 3 and 0.
C32_CountersSaturate ==
    [][ /\ \A k \in 0 .. bp.pht_size - 1 :
              /\ PhtAt(bp', k) \in 0 .. 3
              /\ hist.calls = 0 => PhtAt(bp, k) = 2
        /\ hist'.op = "predict" =>
              /\ \A k \in 0 .. bp.pht_size - 1 : PhtAt(bp', k) = PhtAt(bp, k)
              /\ bp'.bhr = bp.bhr
              /\ bp'.correct = bp.correct
              /\ bp'.total = bp.total + 1
        /\ hist'.op = "update" /\ bp.type = PREDICTOR_BIMODAL =>
              OnlySlotStepped(bp, bp', hist'.pc % bp.pht_size, hist'.taken)
        /\ hist'.op = "update" /\ bp.type = PREDICTOR_GSHARE =>
              OnlySlotStepped(bp, bp',
                              BitOp("xor", hist'.pc, bp.bhr, WordBits) % bp.pht_size,
                              hist'.taken) ]_vars

\* Three updates that all stepped one counter of a gshare table: it reached
\* 0 with the second and stayed there with the third.
C32_Witness ==
    /\ bp.type = PREDICTOR_GSHARE
    /\ hist.calls = 3 /\ bp.total = 0
    /\ \E i \in 0 .. bp.pht_size - 1 :
          /\ PhtAt(bp, i) = 0
          /\ \A k \in 0 .. bp.pht_size - 1 : k # i => PhtAt(bp, k) = 2


\* C33: a bp_update of a gshare predictor leaves the history register at
\* ((bhr << 1) | taken) mod 2^bhr_size, so below 2^bhr_size, and adjusts
\* the counter indexed with the history of before the shift: the slot the
\* directly preceding bp_predict of that branch read.
C33_GshareHistory ==
    [][ bp.type = PREDICTOR_GSHARE /\ hist'.op = "update" =>
          /\ bp'.bhr = (2 * bp.bhr + (IF hist'.taken THEN 1 ELSE 0)) % (2^bp.bhr_size)
          /\ bp'.bhr < 2^bp.bhr_size
          /\ \A k \in 0 .. bp.pht_size - 1 :
                k # BitOp("xor", hist'.pc, bp.bhr, WordBits) % bp.pht_size =>
                    PhtAt(bp', k) = PhtAt(bp, k)
          /\ hist'.paired =>
                /\ hist.slot = BitOp("xor", hist'.pc, bp.bhr, WordBits) % bp.pht_size
                /\ PhtAt(bp', hist.slot) # PhtAt(bp, hist.slot)
                     \/ PhtAt(bp, hist.slot) = (IF hist'.taken THEN 3 ELSE 0) ]_vars

\* An update paired with its predict moved a counter that pc alone does not
\* select, and the shift dropped the oldest history bit.
C33_Witness ==
    /\ bp.type = PREDICTOR_GSHARE /\ bp.bhr_size = 1 /\ bp.bhr = 1
    /\ hist.paired /\ hist.calls = 3 /\ hist.taken
    /\ hist.slot # hist.pc % bp.pht_size
    /\ PhtAt(bp, hist.slot) = 3


\* C34: a cpu_step in which a JMP, JZ or JNZ enters Execute calls
\* bp_predict and bp_update once each for it, with taken = (result #
\* pc + 1) and the prediction just made, and the jump has left Decode, so
\* it is not executed again; any other cpu_step leaves the predictor as it
\* was; the correct counter never exceeds the total counter.
C34_PredictorUpdatedOncePerJump ==
    [][ CpuStep =>
          LET prev == cpu.pipeline[STAGE_DECODE]
              ex == cpu'.pipeline[STAGE_EXECUTE]
          IN /\ IF ~prev.bubble /\ IsJump(prev.type)
                THEN LET p == bp_predict(cpu.bp, prev.pc)
                     IN /\ cpu'.bp = bp_update(p.bp, prev.pc,
                                               ex.result # W(prev.pc + 1), p.ret)
                        /\ Held(cpu'.pipeline[STAGE_DECODE]) # Held(prev)
                ELSE cpu'.bp = cpu.bp
             /\ cpu'.bp.correct <= cpu'.bp.total ]_vars

\* The taken JZ of the branch program is in Execute and its prediction has
\* been counted as correct.
C34_Witness ==
    /\ hist.loaded /\ hist.program = ProgBranchTaken
    /\ Held(cpu.pipeline[STAGE_EXECUTE]) = << LoadAddress, INST_JZ, INST_JZ >>
    /\ cpu.bp.total = 1 /\ cpu.bp.correct = 1


\* C35: in the in-order pipeline the general-purpose registers and the
\* flags word are stored to by the Writeback stage only, and no stage
\* other than Writeback changes their value within a cpu_step.
C35_WrittenAtWritebackOnly ==
    /\ \A w \in cpu.written : w[2] = STAGE_WRITEBACK
    /\ LET c1 == stage_commit(cpu)
           c2 == stage_writeback(c1)
           c3 == stage_memory(c2)
           c4 == stage_execute(c3)
           c5 == stage_decode(c4)
           c6 == stage_fetch(c5)
           same(a, b) == a.registers = b.registers /\ a.flags = b.flags
       IN same(cpu, c1) /\ same(c2, c3) /\ same(c3, c4) /\ same(c4, c5)
          /\ same(c5, c6)


\* A CPU whose L1 cache is c, after cpu_reset.
ResetWithL1(c) ==
    LET u == CHOOSE x \in UninitPatterns : TRUE
    IN cpu_reset([cpu_create(MemSize, u, 0) EXCEPT !.l1_cache = c], 0)

\* C36: after any sequence of cache_access calls accesses is the number of
\* calls made and equals hits + misses; no call lowers any of the three
\* counters, and cpu_reset leaves them as they are.
C36_CountersConsistent ==
    [][ /\ cache'.accesses = hist'.calls
        /\ cache'.accesses = cache'.hits + cache'.misses
        /\ cache'.accesses >= cache.accesses
        /\ cache'.hits >= cache.hits
        /\ cache'.misses >= cache.misses
        /\ LET l1 == ResetWithL1(cache').l1_cache
           IN /\ l1.accesses = cache'.accesses
              /\ l1.hits = cache'.hits
              /\ l1.misses = cache'.misses ]_cache

\* Four calls, hits and misses among them.
C36_Witness ==
    /\ hist.calls = 4 /\ cache.hits = 2 /\ cache.misses = 2


\* C37: no set holds the same tag in two valid ways, and in a
\* set-associative cache the valid ways of every set are the ways below
\* some index (way i valid implies every way j < i valid).
C37_NoDuplicateTagsValidPrefix ==
    \A s \in 0 .. cache.num_sets - 1 :
        /\ \A i, j \in 0 .. cache.associativity - 1 :
              (i # j /\ ValidAt(cache, s, i) /\ ValidAt(cache, s, j))
                  => TagAt(cache, s, i) # TagAt(cache, s, j)
        /\ cache.type = CACHE_SET_ASSOC =>
              \A i \in 0 .. cache.associativity - 1 :
                  ValidAt(cache, s, i) =>
                      \A j \in 0 .. i - 1 : ValidAt(cache, s, j)

\* A full three-way set after a hit and an eviction.
C37_Witness ==
    /\ cache.type = CACHE_SET_ASSOC /\ cache.associativity = 3
    /\ ValidAt(cache, 0, 2) /\ cache.misses > 3 /\ cache.hits > 0


\* The stages from Execute to Commit that hold something other than a no-op.
Working(c) ==
    { s \in STAGE_EXECUTE .. STAGE_COMMIT : c.pipeline[s].type # INST_NOP }

\* C38: after every cpu_step at most one of Execute, Memory, Writeback and
\* Commit holds a non-no-op, and Decode takes the instruction of Fetch
\* only in a step in which those four stages, as Decode finds them, all
\* hold no-ops.
C38_NoOverlap ==
    [][ CpuStep =>
          /\ Cardinality(Working(cpu')) <= 1
          /\ ~HazardInStep(cpu) /\ ~cpu.pipeline[STAGE_FETCH].bubble =>
                /\ Working(SeenByDecode(cpu)) = {}
                /\ Working(cpu') = {} ]_vars

\* An instruction is in Writeback while the next one waits in Fetch.
C38_Witness ==
    /\ hist.loaded
    /\ Working(cpu) = {STAGE_WRITEBACK}
    /\ cpu.pipeline[STAGE_FETCH].stall
    /\ cpu.pipeline[STAGE_FETCH].type # INST_NOP


\* C39: the kind stage_fetch gives an opcode byte is the kind
\* decode_instruction gives it: for the instruction just decoded from the
\* buffer, and for every byte value at the head of a buffer.
C39_FetchAgreesWithCodec ==
    codec.phase \in {"decoded", "sized"} =>
        /\ fetch_type(codec.mem[codec.at]) = codec.decoded.type
        /\ \A b \in 0 .. Byte - 1 :
              fetch_type(b) = decode_instruction([x \in 0 .. BufLen - 1 |-> b], 0).type


-----------------------------------------------------------------------------
(* src/kernel/ipc.c: one message queue shared by threads that call mq_send *)
(* and mq_receive.  Every sem_wait, every sem_post and the two halves of   *)
(* each critical section are separate steps; a sem_wait may also fail      *)
(* (EINTR), which makes the call return -1.                                *)

MaxMqCalls == 2
MqCapacities == {1, 2}
MqSenders == {1, 2}
MqReceivers == {3, 4}
MqThreads == MqSenders \cup MqReceivers

\* A queue whose slots semaphore starts one above the capacity.
mq_create_ExtraSlot(capacity) ==
    [ capacity |-> capacity, messages |-> [i \in 0 .. capacity - 1 |-> 0],
      head |-> 0, tail |-> 0, count |-> 0,
      mutex |-> 1, slots |-> capacity + 1, items |-> 0 ]

\* mq_create: an empty queue; the slots hold whatever malloc left (0 here,
\* never a message id).
mq_create(capacity) ==
    [ capacity |-> capacity, messages |-> [i \in 0 .. capacity - 1 |-> 0],
      head |-> 0, tail |-> 0, count |-> 0,
      mutex |-> 1, slots |-> capacity, items |-> 0 ]

InitMq ==
    /\ \E capacity \in MqCapacities : kernel = mq_create(capacity)
    \* each thread's position in its call, the calls it has finished and
    \* the message it holds
    /\ ret = [t \in MqThreads |-> [pc |-> "idle", calls |-> 0, msg |-> 0]]
    \* ghost: the messages in the order they were stored and in the order
    \* they were taken, the slots holding a message not yet taken, whether
    \* a store hit such a slot, and whether a take hit any other slot
    /\ hist = [ sent |-> << >>, received |-> << >>, full |-> {},
                clobbered |-> FALSE, stale |-> FALSE ]
    /\ cpu = None /\ cpuB = None /\ cache = None /\ bp = None
    /\ tom = None /\ codec = None

MqGoto(t, pc) == ret' = [ret EXCEPT ![t].pc = pc]

MqReturn(t) == ret' = [ret EXCEPT ![t].pc = "idle", ![t].calls = @ + 1]

MqIdle == UNCHANGED <<cpu, cpuB, cache, bp, tom, codec>>

\* sem_wait(&mq->slots) in mq_send, sem_wait(&mq->items) in mq_receive: the
\* call starts, and goes on once the semaphore is positive.
MqWaitFirst(t) ==
    /\ ret[t].pc = "idle" /\ ret[t].calls < MaxMqCalls
    /\ IF t \in MqSenders
       THEN /\ kernel.slots > 0
            /\ kernel' = [kernel EXCEPT !.slots = @ - 1]
            /\ ret' = [ret EXCEPT ![t].pc = "mutex",
                                  ![t].msg = 10 * t + ret[t].calls + 1]
       ELSE /\ kernel.items > 0
            /\ kernel' = [kernel EXCEPT !.items = @ - 1]
            /\ MqGoto(t, "mutex")
    /\ UNCHANGED hist /\ MqIdle

\* A sem_wait that returns non-zero: the call returns -1 at once.
MqInterrupted(t) ==
    /\ \/ ret[t].pc = "idle" /\ ret[t].calls < MaxMqCalls
       \/ ret[t].pc = "mutex"
    /\ MqReturn(t)
    /\ UNCHANGED <<kernel, hist>> /\ MqIdle

\* sem_wait(&mq->mutex)
MqWaitMutex(t) ==
    /\ ret[t].pc = "mutex" /\ kernel.mutex > 0
    /\ kernel' = [kernel EXCEPT !.mutex = @ - 1]
    /\ MqGoto(t, "copy")
    /\ UNCHANGED hist /\ MqIdle

\* mq->messages[mq->tail] = *msg; mq->tail = (mq->tail + 1) % mq->capacity;
MqSendCopy(t) ==
    /\ t \in MqSenders /\ ret[t].pc = "copy"
    /\ kernel' = [kernel EXCEPT !.messages[kernel.tail] = ret[t].msg,
                                !.tail = (@ + 1) % kernel.capacity]
    /\ hist' = [hist EXCEPT !.sent = Append(@, ret[t].msg),
                            !.full = @ \cup {kernel.tail},
                            !.clobbered = @ \/ kernel.tail \in hist.full]
    /\ MqGoto(t, "count") /\ MqIdle

\* *msg = mq->messages[mq->head]; mq->head = (mq->head + 1) % mq->capacity;
MqReceiveCopy(t) ==
    /\ t \in MqReceivers /\ ret[t].pc = "copy"
    /\ kernel' = [kernel EXCEPT !.head = (@ + 1) % kernel.capacity]
    /\ hist' = [hist EXCEPT !.received = Append(@, kernel.messages[kernel.head]),
                            !.full = @ \ {kernel.head},
                            !.stale = @ \/ kernel.head \notin hist.full]
    /\ ret' = [ret EXCEPT ![t].pc = "count", ![t].msg = kernel.messages[kernel.head]]
    /\ MqIdle

\* mq->count++; in mq_send, mq->count--; in mq_receive
MqCount(t) ==
    /\ ret[t].pc = "count"
    /\ kernel' = [kernel EXCEPT !.count = IF t \in MqSenders THEN @ + 1 ELSE @ - 1]
    /\ MqGoto(t, "post_mutex")
    /\ UNCHANGED hist /\ MqIdle

\* sem_post(&mq->mutex)
MqPostMutex(t) ==
    /\ ret[t].pc = "post_mutex"
    /\ kernel' = [kernel EXCEPT !.mutex = @ + 1]
    /\ MqGoto(t, "post")
    /\ UNCHANGED hist /\ MqIdle

\* sem_post(&mq->items) in mq_send, sem_post(&mq->slots) in mq_receive;
\* return 0
MqPostSecond(t) ==
    /\ ret[t].pc = "post"
    /\ kernel' = IF t \in MqSenders THEN [kernel EXCEPT !.items = @ + 1]
                 ELSE [kernel EXCEPT !.slots = @ + 1]
    /\ MqReturn(t)
    /\ UNCHANGED hist /\ MqIdle

NextMq ==
    \E t \in MqThreads :
        \/ MqWaitFirst(t)
        \/ MqInterrupted(t)
        \/ MqWaitMutex(t)
        \/ MqSendCopy(t)
        \/ MqReceiveCopy(t)
        \/ MqCount(t)
        \/ MqPostMutex(t)
        \/ MqPostSecond(t)

SpecMq == InitMq /\ [][NextMq]_vars

\* s is an initial part of t.
IsPrefix(s, t) == Len(s) <= Len(t) /\ \A i \in 1 .. Len(s) : s[i] = t[i]

\* C40: under any interleaving of mq_send and mq_receive calls on one
\* queue, 0 <= count <= capacity; no slot is stored to while it holds a
\* message not yet received, and only such slots are read; messages are
\* received in the order they were stored; no sender passes its wait while
\* the queue is full and no receiver while it is empty.
C40_QueueSafeUnderInterleaving ==
    [][ /\ kernel'.count \in 0 .. kernel.capacity
        /\ ~hist'.clobbered /\ ~hist'.stale
        /\ IsPrefix(hist'.received, hist'.sent)
        /\ \A t \in MqThreads :
              (ret[t].pc = "idle" /\ ret'[t].pc = "mutex") =>
                  IF t \in MqSenders THEN kernel.count < kernel.capacity
                  ELSE kernel.count > 0 ]_vars

\* Both senders and both receivers have finished a call on a one-slot
\* queue, a sender is waiting because the slot is taken again, and the
\* messages of both senders have been received.
C40_Witness ==
    /\ kernel.capacity = 1 /\ kernel.count = 1 /\ kernel.slots = 0
    /\ Len(hist.received) = 2
    /\ hist.received[1] \div 10 # hist.received[2] \div 10
    /\ \A t \in MqReceivers : ret[t].calls = 1
    /\ \E t \in MqSenders : ret[t].pc = "idle" /\ ret[t].calls < MaxMqCalls

====
